---- MODULE Spec2Model ----
(***************************************************************************)
(* A model of the session-lifecycle core of log.close:                     *)
(*   EventBuffer     src/src/session/eventBuffer.ts                        *)
(*   SessionManager  src/src/session/sessionManager.ts                     *)
(*   LocalDb         src/src/storage/localDb.ts                            *)
(*   GitSyncer       src/src/storage/gitSyncer.ts                          *)
(*   Summarizer      src/src/ai/summarizer.ts                              *)
(*   the extension   src/src/extension.ts (commands, end-of-session        *)
(*                   observer, MarkdownExporter)                           *)
(*                                                                         *)
(* Objects are held in a heap and named by reference, as in the source: a   *)
(* Session is one object that currentSession and the history list may both *)
(* point to.  Every handler is one operator from state to state, composed   *)
(* of the calls the handler makes, in the order of the source.             *)
(***************************************************************************)
EXTENDS Integers, Sequences, FiniteSets, TLC

\* ------------------------------------------------------------- bounds
\* Largest buffer cap tried (EventBuffer's maxSize is a constructor
\* parameter; the manager passes 50, the model tries every cap 1..MaxCap).
MaxCap == 2
\* Session objects the manager may create.
MaxSessions == 2
\* Events the capture sources may produce.
MaxEvents == 3
\* Last instant of the simulated clock.
MaxTime == 2
\* End-of-session observers that may be registered.
MaxCallbacks == 2
\* Operations of the stand-alone EventBuffer.
MaxOps == 5
\* Tasks and issues that may be added, by hand or by extraction.
MaxRecords == 2
\* Distinct summaries updateSummary may be handed.
MaxSummaries == 2
\* The configured inactivity timeout, in clock ticks
\* (config.sessionTimeoutMinutes * 60 * 1000 ms, scaled down).
TimeoutTicks == 1
\* Session ids the store may be handed.
MaxStored == 2
\* Calls of sync() in one behaviour.
MaxRuns == 2
\* File events of a session handed to the summarizer.
MaxFileEvents == 11
\* uniqueFiles.slice(0, 10) in createFallbackSummary.
FallbackFiles == 10
\* Math.floor(minutes / 60) in formatDuration.
MinutesPerHour == 60

\* ------------------------------------------------------------- values
\* null / undefined for a reference or a handle (references start at 1).
Null == 0
\* An absent optional Date (endTime?: Date); instants are >= 0.
NoTime == -1

\* 24 hours, in ticks of the store's clock.  A tick stands for the step of
\* the clock (a millisecond) when instants are compared, so the last instant
\* of a day is one tick before the next midnight.
DayTicks == 2
\* The instants the store's sessions and queries are drawn from: the first
\* local day, short or long, and the start of the second.
Instants == 0..(DayTicks + 2)
\* The local days the host's time zone may begin with: a day of 24 hours, or
\* the short or the long day of a daylight-saving change (the days after it
\* have 24 hours).
FirstDays == {DayTicks - 1, DayTicks, DayTicks + 1}

\* A time held in a plain-data object: a Date, the ISO-8601 string
\* JSON.stringify writes for it, or undefined (a key with the value undefined
\* and a missing key read alike, and JSON.stringify leaves both out).
DateAt(t) == [type |-> "Date", ms |-> t]
IsoAt(t) == [type |-> "string", ms |-> t]
Undefined == [type |-> "undefined", ms |-> 0]
\* Session.summary when no summary has been set.
NoSummary == [present |-> FALSE, issuesResolved |-> <<>>]
\* The file at dbPath before anything was written.
NoFile == [kind |-> "absent", sessions |-> <<>>]
\* A file on which JSON.parse raises.
Unparseable == [kind |-> "corrupt", sessions |-> <<>>]
\* A file that parses as JSON and has no sessions list: {} for instance.
NoSessionsList == [kind |-> "no sessions", sessions |-> <<>>]
\* A file that exists and on which readFileSync raises.
Unreadable == [kind |-> "unreadable", sessions |-> <<>>]
\* The file while writeFileSync is at work on it: opened with flag 'w',
\* which empties it, and holding so far a proper prefix of the document,
\* which lacks the closing brace.
Truncated == [kind |-> "partial", sessions |-> <<>>]
\* No writeFileSync call is in progress.
NoWrite == [op |-> "none", arg |-> Null, content |-> NoFile]

VARIABLES
  \* EventBuffer
  buffer,                \* private buffer: SessionEvent[]
  maxSize,               \* private maxSize: number
  flushCallback,         \* private flushCallback?: which callback is registered
  \* SessionManager
  currentSession,        \* Session | null: a reference into heap
  heap,                  \* the Session objects created so far, by reference
  sessions,              \* private sessions: Session[] (references)
  lastActivityTime,      \* private lastActivityTime: Date
  sessionTimeoutTimer,   \* private sessionTimeoutTimer?: timer handle
  onSessionEndCallbacks, \* registered end-of-session observers
  \* the host's scheduler and clock
  pendingTimers,         \* timeouts scheduled and neither fired nor cleared
  timersCreated,         \* handles handed out by setTimeout
  scheduledFor,          \* per handle, the session current when it was scheduled
  now,                   \* the clock read by new Date()
  \* the capture sources
  nextEvent,             \* the next event a source will produce
  idsGenerated,          \* ids generateId() has handed to tasks and issues
  \* LocalDb
  data,                  \* private data: StorageData (its sessions)
  hasSessions,           \* this.data.sessions is a list, not undefined
  dbFile,                \* the file at dbPath
  zone,                  \* the host's time zone: the length of local day 0
  storeLast,             \* observation: the store's operation that acted last
  writer,                \* the writeFileSync call in progress, if any
  readerSaw,             \* observation: what a reader of the file read last
  \* GitSyncer
  gitRepo,               \* getConfig().gitRepo is set
  git,                   \* private git: SimpleGit | null is not null
  isInitialized,         \* private isInitialized
  syncInterval,          \* private syncInterval?: a handle is held
  intervalActive,        \* the host: the interval is set and not cleared
  runs,                  \* the calls of sync() so far, each where it stands
  syncLast,              \* observation: the syncer's operation that acted last
  disposed,              \* the host has disposed of the extension's subscriptions
  \* the extension, its collaborators and the disk
  claudeReady,           \* claudeClient.isInitialized()
  diskFull,              \* the host's disk: writeFileSync raises
  exported,              \* the export documents: what was appended to which
  awaiting,              \* the async functions of the extension at an await
  unhandled,             \* the promises rejected and exceptions raised that
                         \* nothing of the extension handled
  \* observations (history variables; no handler reads them)
  delivered,             \* batches handed to the flush callback, in order
  notified,              \* what each end-of-session observer saw when invoked
  added,                 \* events passed to addEvent, with the session then current
  last,                  \* the operation that acted last and what it returned
  oplog                  \* operations of the stand-alone EventBuffer

vars == <<buffer, maxSize, flushCallback, currentSession, heap, sessions,
          lastActivityTime, sessionTimeoutTimer, onSessionEndCallbacks,
          pendingTimers, timersCreated, scheduledFor, now, nextEvent,
          idsGenerated, delivered, notified, added, last, oplog,
          data, hasSessions, dbFile, zone, storeLast, writer, readerSaw,
          gitRepo, git, isInitialized, syncInterval, intervalActive, runs,
          syncLast, disposed,
          claudeReady, diskFull, exported, awaiting, unhandled>>

\* The variables of the manager, its buffer and its host.
managerVars == <<buffer, maxSize, flushCallback, currentSession, heap, sessions,
                 lastActivityTime, sessionTimeoutTimer, onSessionEndCallbacks,
                 pendingTimers, timersCreated, scheduledFor, now, nextEvent,
                 idsGenerated, delivered, notified, added, last, oplog>>

\* The variables of the store.
storeVars == <<data, hasSessions, dbFile, zone, storeLast, writer, readerSaw>>

\* The variables of the syncer.
syncVars == <<gitRepo, git, isInitialized, syncInterval, intervalActive, runs,
              syncLast, disposed>>

\* The variables of the extension, its collaborators and the disk.
hostVars == <<claudeReady, diskFull, exported, awaiting, unhandled>>

\* What no operation of the store changes once it is constructed, save a
\* write in progress: whether the list is there, the write, and what a
\* reader of the file saw.
fileVars == <<hasSessions, writer, readerSaw>>

\* The program state as one record, so that a handler is an operator on it.
\* raised is not a field of the program: it says that the handler was left
\* by an exception, which every caller up to the host then passes on.
State ==
  [buffer |-> buffer, maxSize |-> maxSize, flushCallback |-> flushCallback,
   currentSession |-> currentSession, heap |-> heap, sessions |-> sessions,
   lastActivityTime |-> lastActivityTime,
   sessionTimeoutTimer |-> sessionTimeoutTimer,
   onSessionEndCallbacks |-> onSessionEndCallbacks,
   pendingTimers |-> pendingTimers, timersCreated |-> timersCreated,
   scheduledFor |-> scheduledFor, now |-> now,
   idsGenerated |-> idsGenerated, delivered |-> delivered,
   notified |-> notified, added |-> added, raised |-> FALSE]

\* The manager's next state is st, computed once (the observations last,
\* oplog and the sources' nextEvent are set by the action itself).
ManagerBecomes(st) ==
  \E next \in {st} :
    /\ buffer' = next.buffer
    /\ maxSize' = next.maxSize
    /\ flushCallback' = next.flushCallback
    /\ currentSession' = next.currentSession
    /\ heap' = next.heap
    /\ sessions' = next.sessions
    /\ lastActivityTime' = next.lastActivityTime
    /\ sessionTimeoutTimer' = next.sessionTimeoutTimer
    /\ onSessionEndCallbacks' = next.onSessionEndCallbacks
    /\ pendingTimers' = next.pendingTimers
    /\ timersCreated' = next.timersCreated
    /\ scheduledFor' = next.scheduledFor
    /\ now' = next.now
    /\ idsGenerated' = next.idsGenerated
    /\ delivered' = next.delivered
    /\ notified' = next.notified
    /\ added' = next.added

\* The same where the handler touches the manager only.
Becomes(st) ==
  /\ ManagerBecomes(st)
  /\ UNCHANGED <<storeVars, syncVars, hostVars>>

Range(s) == {s[i] : i \in 1..Len(s)}

\* ------------------------------------------------------- EventBuffer

\* Variant: the callback assigns the batch instead of appending it.
SessionFlushCallbackReplaces(st, events) ==
  IF st.currentSession # Null
    THEN [st EXCEPT !.heap[st.currentSession].events = events]
    ELSE st

\* The callback the SessionManager registers in its constructor:
\* the batch goes to the current session, if there is one.
SessionFlushCallback(st, events) ==
  IF st.currentSession # Null
    THEN [st EXCEPT !.heap[st.currentSession].events = @ \o events]
    ELSE st

\* this.flushCallback(events): the call itself is recorded in delivered.
InvokeFlushCallback(st, events) ==
  LET seen == [st EXCEPT !.delivered = Append(@, events)]
  IN  IF st.flushCallback = "session"
        THEN SessionFlushCallback(seen, events)
        ELSE seen

\* Variant: flush forgets to empty the buffer.
DrainKeeps(st) == st

\* this.buffer = [] in flush
Drain(st) == [st EXCEPT !.buffer = <<>>]

\* Variant: flush calls back without looking at the batch's length.
HasBatchAlways(st, events) == st.flushCallback # "none"

\* this.flushCallback && events.length > 0
HasBatch(st, events) == st.flushCallback # "none" /\ Len(events) > 0

\* EventBuffer.flush(): the state after it; it returns FlushResult.
flush(st) ==
  LET events  == st.buffer
      drained == Drain(st)
  IN  IF HasBatch(drained, events)
        THEN InvokeFlushCallback(drained, events)
        ELSE drained

\* const events = [...this.buffer]; ... return events
FlushResult(st) == st.buffer

\* Variant: push compares with > instead of >=.
AtCapStrict(st) == Len(st.buffer) > st.maxSize

\* this.buffer.length >= this.maxSize
AtCap(st) == Len(st.buffer) >= st.maxSize

\* EventBuffer.push(event)
push(st, event) ==
  LET pushed == [st EXCEPT !.buffer = Append(@, event)]
  IN  IF AtCap(pushed) THEN flush(pushed) ELSE pushed

\* ----------------------------------------------------- SessionManager

\* Variant: the new session is stamped one tick before the clock.
NewSessionBackdated(id, t) ==
  [id |-> id, startTime |-> t - 1, endTime |-> NoTime, events |-> <<>>,
   tasks |-> <<>>, issues |-> <<>>, summary |-> Null, isActive |-> TRUE]

\* The Session object startSession creates.
NewSession(id, t) ==
  [id |-> id, startTime |-> t, endTime |-> NoTime, events |-> <<>>,
   tasks |-> <<>>, issues |-> <<>>, summary |-> Null, isActive |-> TRUE]

\* currentSession?.isActive
CurrentIsActive(st) ==
  st.currentSession # Null /\ st.heap[st.currentSession].isActive

\* clearTimeout(handle): a cleared timeout is no longer pending.
clearTimeout(st, handle) ==
  [st EXCEPT !.pendingTimers = {t \in @ : t.id # handle}]

\* setTimeout(callback, timeoutMs): a new pending timeout and its handle.
setTimeout(st, delay) ==
  LET handle == st.timersCreated + 1
  IN  [st EXCEPT !.timersCreated = handle,
                 !.sessionTimeoutTimer = handle,
                 !.scheduledFor = Append(@, st.currentSession),
                 !.pendingTimers = @ \cup {[id |-> handle, due |-> st.now + delay]}]

\* Variant: the timeout is scheduled without clearing the one before it.
resetSessionTimeoutKeepsOld(st) == setTimeout(st, TimeoutTicks)

\* SessionManager.resetSessionTimeout()
resetSessionTimeout(st) ==
  LET cleared == IF st.sessionTimeoutTimer # Null
                   THEN clearTimeout(st, st.sessionTimeoutTimer)
                   ELSE st
  IN  setTimeout(cleared, TimeoutTicks)

\* What an end-of-session observer may do when it is called (onSessionEnd
\* takes any (session: Session) => void): return, as the async handler the
\* host registers does; raise; or call back into the manager's addEvent or
\* startSession before it returns.
ObserverKinds == {"returns", "raises", "adds event", "starts session"}

\* An observer: the position at which it was registered and what it does.
Observer(id, does) == [id |-> id, does |-> does]

\* The event an observer passes to addEvent: none of the sources' events.
ObserverEvent == MaxEvents + 1

RECURSIVE startSession(_)
RECURSIVE addEvent(_, _)

\* One end-of-session observer is called with the ended session: what it is
\* handed and what the manager's state is at that moment are recorded, and
\* the observer does what it does.
InvokeEndCallback(st, cb, ended) ==
  LET called ==
        [st EXCEPT !.notified =
           Append(@, [cb |-> cb, session |-> ended, seen |-> st.heap[ended],
                      inHistory |-> ended \in Range(st.sessions),
                      pending |-> st.buffer,
                      current |-> st.currentSession,
                      created |-> Len(st.heap),
                      timerPending |-> st.pendingTimers # {}])]
  IN  CASE cb.does = "raises" -> [called EXCEPT !.raised = TRUE]
        [] cb.does = "adds event" -> addEvent(called, ObserverEvent)
        [] cb.does = "starts session" -> startSession(called)
        [] OTHER -> called

\* Variant: the observers are called last-registered first.
RECURSIVE ForEachEndCallbackReversed(_, _, _)
ForEachEndCallbackReversed(st, ended, i) ==
  IF i > Len(st.onSessionEndCallbacks)
    THEN st
    ELSE InvokeEndCallback(ForEachEndCallbackReversed(st, ended, i + 1),
                           st.onSessionEndCallbacks[i], ended)

\* this.onSessionEndCallbacks.forEach((cb) => cb(endedSession)), from index
\* i: an observer that raises ends the forEach.
RECURSIVE ForEachEndCallback(_, _, _)
ForEachEndCallback(st, ended, i) ==
  IF i > Len(st.onSessionEndCallbacks) \/ st.raised
    THEN st
    ELSE ForEachEndCallback(
           InvokeEndCallback(st, st.onSessionEndCallbacks[i], ended), ended, i + 1)

\* Variant: endSession stamps the end time and leaves the session active.
FinalizeStaysActive(st) ==
  [st EXCEPT !.heap[st.currentSession].endTime = st.now]

\* this.currentSession.endTime = new Date(); this.currentSession.isActive = false
Finalize(st) ==
  [st EXCEPT !.heap[st.currentSession].endTime = st.now,
             !.heap[st.currentSession].isActive = FALSE]

\* Variant: the ended session is put at the front of the history.
RecordFirst(st) == [st EXCEPT !.sessions = <<st.currentSession>> \o @]

\* this.sessions.push(endedSession)
Record(st) == [st EXCEPT !.sessions = Append(@, st.currentSession)]

\* Variant: the timeout is left pending.
CancelTimeoutSkipped(st) == st

\* if (this.sessionTimeoutTimer) clearTimeout(this.sessionTimeoutTimer)
CancelTimeout(st) ==
  IF st.sessionTimeoutTimer # Null
    THEN clearTimeout(st, st.sessionTimeoutTimer)
    ELSE st

\* Variant: endSession pushes currentSession onto the history before it
\* looks whether there is one.
endSessionRecordsFirst(st) ==
  LET recorded == Record(st)
  IN  IF recorded.currentSession = Null
        THEN recorded
        ELSE
          LET cancelled == CancelTimeout(Finalize(flush(recorded)))
              observed  == ForEachEndCallback(cancelled, cancelled.currentSession, 1)
          IN  [observed EXCEPT !.currentSession = Null]

\* SessionManager.endSession(): the state after it; it returns
\* EndSessionResult.  When an observer raises, the statements after the
\* forEach do not run: currentSession keeps the ended session.
endSession(st) ==
  IF st.currentSession = Null
    THEN st
    ELSE
      LET cancelled == CancelTimeout(Record(Finalize(flush(st))))
          observed  == ForEachEndCallback(cancelled, cancelled.currentSession, 1)
      IN  IF observed.raised
            THEN observed
            ELSE [observed EXCEPT !.currentSession = Null]

\* return null / return endedSession
EndSessionResult(st) == st.currentSession

\* Variant: startSession does not end the session in progress.
EndPriorSkipped(st) == st

\* if (this.currentSession?.isActive) this.endSession()
EndPrior(st) == IF CurrentIsActive(st) THEN endSession(st) ELSE st

\* SessionManager.startSession(): the state after it; it returns the new
\* current session.
startSession(st) ==
  LET prior   == EndPrior(st)
      ref     == Len(prior.heap) + 1
      created == [prior EXCEPT !.heap = Append(@, NewSession(ref, prior.now)),
                               !.currentSession = ref,
                               !.lastActivityTime = prior.now]
  IN  IF prior.raised THEN prior ELSE resetSessionTimeout(created)

\* Variant: addEvent does not start a session when there is none.
AutoStartSkipped(st) == st

\* if (!this.currentSession) this.startSession()
AutoStart(st) == IF st.currentSession = Null THEN startSession(st) ELSE st

\* SessionManager.addEvent(event).  No onEvent observer is registered
\* anywhere in the program, so the final forEach calls nothing.
addEvent(st, event) ==
  LET started == AutoStart(st)
      active  == [started EXCEPT !.lastActivityTime = started.now]
      reset   == resetSessionTimeout(active)
      noted   == [reset EXCEPT !.added =
                    Append(@, [event |-> event, session |-> reset.currentSession])]
  IN  IF started.raised THEN started ELSE push(noted, event)

\* Variant: the timeout's callback does nothing.
TimeoutCallbackIdle(st) == st

\* The callback resetSessionTimeout hands to setTimeout.
TimeoutCallback(st) ==
  IF CurrentIsActive(st) THEN endSession(st) ELSE st

\* SessionManager.dispose()
dispose(st) ==
  LET cancelled == CancelTimeout(st)
  IN  IF CurrentIsActive(cancelled) THEN endSession(cancelled) ELSE cancelled

\* SessionManager.onSessionEnd(callback)
onSessionEnd(st, cb) ==
  [st EXCEPT !.onSessionEndCallbacks = Append(@, cb)]

\* Variant: addTask draws the new id before it looks for a session.
addTaskDrawsIdFirst(st, task) ==
  LET id      == st.idsGenerated + 1
      newTask == [id |-> id, description |-> task, createdAt |-> st.now,
                  sessionId |-> st.heap[st.currentSession].id]
  IN  IF st.currentSession = Null
        THEN [st EXCEPT !.idsGenerated = id]
        ELSE [st EXCEPT !.idsGenerated = id,
                        !.heap[st.currentSession].tasks = Append(@, newTask)]

\* SessionManager.addTask(task): the state after it; it returns
\* AddRecordResult (the new record's id, or null).
addTask(st, task) ==
  IF st.currentSession = Null
    THEN st
    ELSE
      LET id      == st.idsGenerated + 1
          newTask == [id |-> id, description |-> task, createdAt |-> st.now,
                      sessionId |-> st.heap[st.currentSession].id]
      IN  [st EXCEPT !.idsGenerated = id,
                     !.heap[st.currentSession].tasks = Append(@, newTask)]

\* SessionManager.addIssue(issue)
addIssue(st, issue) ==
  IF st.currentSession = Null
    THEN st
    ELSE
      LET id       == st.idsGenerated + 1
          newIssue == [id |-> id, description |-> issue, createdAt |-> st.now,
                       sessionId |-> st.heap[st.currentSession].id]
      IN  [st EXCEPT !.idsGenerated = id,
                     !.heap[st.currentSession].issues = Append(@, newIssue)]

AddRecordResult(st) ==
  IF st.currentSession = Null THEN Null ELSE st.idsGenerated + 1

\* this.sessions.find((s) => s.id === sessionId): the first match, or null.
FindSession(st, sessionId) ==
  LET hits == {i \in 1..Len(st.sessions) : st.heap[st.sessions[i]].id = sessionId}
  IN  IF hits = {}
        THEN Null
        ELSE st.sessions[CHOOSE i \in hits : \A j \in hits : i <= j]

\* Variant: updateSummary looks in the history only.
updateSummaryHistoryOnly(st, sessionId, summary) ==
  LET session == FindSession(st, sessionId)
  IN  IF session # Null
        THEN [st EXCEPT !.heap[session].summary = summary]
        ELSE st

\* SessionManager.updateSummary(sessionId, summary)
updateSummary(st, sessionId, summary) ==
  LET session == FindSession(st, sessionId)
      inList  == IF session # Null
                   THEN [st EXCEPT !.heap[session].summary = summary]
                   ELSE st
  IN  IF inList.currentSession # Null
         /\ inList.heap[inList.currentSession].id = sessionId
        THEN [inList EXCEPT !.heap[inList.currentSession].summary = summary]
        ELSE inList

\* Variant: an extracted record is stamped with the id of the session that
\* is current when the extraction completes.
ExtractedSessionIdOfCurrent(st, session) ==
  IF st.currentSession = Null THEN Null ELSE st.heap[st.currentSession].id

\* sessionId: session.id in TaskExtractor.extractFromSession(session)
ExtractedSessionId(st, session) == st.heap[session].id

\* One Task or Issue that extractFromSession(session) returns.
Extracted(st, session, description) ==
  [id |-> st.idsGenerated + 1, description |-> description,
   createdAt |-> st.now, sessionId |-> ExtractedSessionId(st, session)]

\* session.tasks.push(...extracted.tasks) with one extracted task: session is
\* the object the caller passed to extractFromSession.
attachExtractedTask(st, session) ==
  [st EXCEPT !.idsGenerated = @ + 1,
             !.heap[session].tasks = Append(@, Extracted(st, session, "task"))]

\* session.issues.push(...extracted.issues) with one extracted issue.
attachExtractedIssue(st, session) ==
  [st EXCEPT !.idsGenerated = @ + 1,
             !.heap[session].issues = Append(@, Extracted(st, session, "issue"))]

\* ------------------------------------------------------------ actions

\* What an operation of the store leaves in storeLast.
StoreDid(op, arg, ret) == [op |-> op, arg |-> arg, ret |-> ret]

\* What an operation of the syncer leaves in syncLast: the operation, the
\* call of sync() it started or continued, what it returned and the git
\* operations it made itself.
SyncDid(op, run, ret, calls) ==
  [op |-> op, run |-> run, ret |-> ret, calls |-> calls]

\* After new GitSyncer().
SyncerNew ==
  /\ git = FALSE
  /\ isInitialized = FALSE
  /\ syncInterval = FALSE
  /\ intervalActive = FALSE
  /\ runs = <<>>
  /\ syncLast = SyncDid("new", Null, "none", <<>>)
  /\ disposed = FALSE

\* After new GitSyncer() where no remote repository is configured.
SyncerNotConfigured ==
  /\ gitRepo = FALSE
  /\ SyncerNew

\* activate() has not run: nothing is exported, awaited or failed.
HostNotActivated ==
  /\ claudeReady = FALSE
  /\ diskFull = FALSE
  /\ exported = <<>>
  /\ awaiting = {}
  /\ unhandled = {}

\* No LocalDb has been constructed and no file written.
StoreNotOpened ==
  /\ data = <<>>
  /\ hasSessions = TRUE
  /\ dbFile = NoFile
  /\ zone = DayTicks
  /\ storeLast = StoreDid("none", Null, Null)
  /\ writer = NoWrite
  /\ readerSaw = NoFile

\* What an operation leaves in last.
Did(op, prior, ret, arg) ==
  [op |-> op, prior |-> prior, ret |-> ret, arg |-> arg]

\* After new SessionManager(): an EventBuffer with the manager's flush
\* callback, no session, no history.
Init ==
  /\ buffer = <<>>
  /\ maxSize \in 1..MaxCap
  /\ flushCallback = "session"
  /\ currentSession = Null
  /\ heap = <<>>
  /\ sessions = <<>>
  /\ lastActivityTime = 0
  /\ sessionTimeoutTimer = Null
  /\ onSessionEndCallbacks = <<>>
  /\ pendingTimers = {}
  /\ timersCreated = 0
  /\ scheduledFor = <<>>
  /\ now = 0
  /\ nextEvent = 1
  /\ idsGenerated = 0
  /\ delivered = <<>>
  /\ notified = <<>>
  /\ added = <<>>
  /\ last = Did("new", Null, Null, Null)
  /\ oplog = <<>>
  /\ StoreNotOpened
  /\ SyncerNotConfigured
  /\ HostNotActivated

\* The number of Session objects an operation may still create.
CanCreate(st) == Len(st.heap) < MaxSessions

\* The Session objects the observers create when a session ends.
Starters(st) ==
  Cardinality({i \in 1..Len(st.onSessionEndCallbacks) :
                 st.onSessionEndCallbacks[i].does = "starts session"})

\* When a session ends the observers may still create theirs, and the
\* history may take one more entry.
CanEnd(st) ==
  st.currentSession # Null =>
    /\ Len(st.heap) + Starters(st) <= MaxSessions
    /\ Len(st.sessions) < MaxSessions

\* What an operation is called in last: by its name, or as having raised
\* when an exception left it.
RaisedIn(op) ==
  CASE op = "startSession" -> "startSession raised"
    [] op = "endSession" -> "endSession raised"
    [] op = "timeout" -> "timeout raised"
    [] op = "dispose" -> "dispose raised"

Named(op, st) == IF st.raised THEN RaisedIn(op) ELSE op

StartSession ==
  /\ CanCreate(State)
  /\ CurrentIsActive(State) => Len(heap) + Starters(State) < MaxSessions
  /\ \E next \in {startSession(State)} :
       /\ Becomes(next)
       /\ last' = Did(Named("startSession", next), currentSession,
                      next.currentSession, Null)
  /\ UNCHANGED <<nextEvent, oplog>>

EndSession ==
  /\ CanEnd(State)
  /\ \E next \in {endSession(State)} :
       /\ Becomes(next)
       /\ last' = Did(Named("endSession", next), currentSession,
                      EndSessionResult(State), Null)
  /\ UNCHANGED <<nextEvent, oplog>>

AddEvent ==
  /\ nextEvent <= MaxEvents
  /\ currentSession = Null => CanCreate(State)
  /\ Becomes(addEvent(State, nextEvent))
  /\ nextEvent' = nextEvent + 1
  /\ last' = Did("addEvent", currentSession, Null, nextEvent)
  /\ UNCHANGED oplog

\* The timeout t fires: it is no longer pending and its callback runs.
Fire(t) ==
  /\ CanEnd(State)
  /\ \E next \in {TimeoutCallback([State EXCEPT !.pendingTimers = @ \ {t}])} :
       /\ Becomes(next)
       /\ last' = Did(Named("timeout", next), currentSession,
                      IF CurrentIsActive(State) THEN currentSession ELSE Null,
                      t.id)
  /\ UNCHANGED <<nextEvent, oplog>>

\* A pending timeout fires when it is due.
TimerFires ==
  \E t \in pendingTimers : t.due <= now /\ Fire(t)

\* With the clock left out, a pending timeout may fire at any moment: every
\* order of operations that some timing of the calls produces, and no
\* timestamps.
TimerFiresAnyTime ==
  \E t \in pendingTimers : Fire(t)

\* Time passes, but not past a pending timeout that is due.
Tick ==
  /\ now < MaxTime
  /\ \A t \in pendingTimers : now < t.due
  /\ now' = now + 1
  /\ last' = Did("tick", currentSession, Null, Null)
  /\ UNCHANGED <<buffer, maxSize, flushCallback, currentSession, heap, sessions,
                 lastActivityTime, sessionTimeoutTimer, onSessionEndCallbacks,
                 pendingTimers, timersCreated, scheduledFor, nextEvent,
                 idsGenerated, delivered, notified, added, oplog, storeVars,
                 syncVars, hostVars>>

Dispose ==
  /\ CanEnd(State)
  /\ \E next \in {dispose(State)} :
       /\ Becomes(next)
       /\ last' = Did(Named("dispose", next), currentSession,
                      IF CurrentIsActive(State) THEN currentSession ELSE Null,
                      Null)
  /\ UNCHANGED <<nextEvent, oplog>>

\* An observer that does one of kinds is registered, before the first
\* session starts.
Registers(kinds) ==
  /\ Len(onSessionEndCallbacks) < MaxCallbacks
  /\ heap = <<>>
  /\ \E does \in kinds :
       Becomes(onSessionEnd(State, Observer(Len(onSessionEndCallbacks) + 1,
                                           does)))
  /\ last' = Did("onSessionEnd", currentSession, Null, Null)
  /\ UNCHANGED <<nextEvent, oplog>>

\* The host registers its observers while it activates, before it starts the
\* first session (extension.ts registers at line 201 and starts at line 237):
\* async functions, which return a promise and never raise.
OnSessionEnd == Registers({"returns"})

\* An observer of any kind is registered, the only one.
OnSessionEndOfAnyKind ==
  /\ onSessionEndCallbacks = <<>>
  /\ Registers(ObserverKinds)

AddTask ==
  /\ idsGenerated < MaxRecords
  /\ Becomes(addTask(State, "task"))
  /\ last' = Did("addTask", currentSession, AddRecordResult(State), Null)
  /\ UNCHANGED <<nextEvent, oplog>>

AddIssue ==
  /\ idsGenerated < MaxRecords
  /\ Becomes(addIssue(State, "issue"))
  /\ last' = Did("addIssue", currentSession, AddRecordResult(State), Null)
  /\ UNCHANGED <<nextEvent, oplog>>

\* updateSummary with the id of a session that exists or of one that does not.
UpdateSummary ==
  \E sessionId \in 1..(Len(heap) + 1), summary \in 1..MaxSummaries :
    /\ Becomes(updateSummary(State, sessionId, summary))
    /\ last' = Did("updateSummary", currentSession, summary, sessionId)
    /\ UNCHANGED <<nextEvent, oplog>>

\* A summarize-and-extract flow of the host completes: it was started with
\* the session that was current (summarizeNow) or had just ended (the end
\* command, the end-of-session observer), and the records it extracted are
\* pushed onto that same object, whatever has happened to the manager since.
ExtractTask ==
  \E session \in 1..Len(heap) :
    /\ idsGenerated < MaxRecords
    /\ Becomes(attachExtractedTask(State, session))
    /\ last' = Did("extractTask", currentSession, idsGenerated + 1, session)
    /\ UNCHANGED <<nextEvent, oplog>>

ExtractIssue ==
  \E session \in 1..Len(heap) :
    /\ idsGenerated < MaxRecords
    /\ Becomes(attachExtractedIssue(State, session))
    /\ last' = Did("extractIssue", currentSession, idsGenerated + 1, session)
    /\ UNCHANGED <<nextEvent, oplog>>

\* The session lifecycle: commands, capture sources, the inactivity timer.
Next ==
  \/ StartSession
  \/ EndSession
  \/ AddEvent
  \/ TimerFires
  \/ Tick
  \/ Dispose
  \/ OnSessionEnd

Spec == Init /\ [][Next]_vars

\* Some pending timeout is due: exactly the states in which TimerFires can
\* act, and its acting always changes pendingTimers.
TimerDue == \E t \in pendingTimers : t.due <= now

\* WF_vars(TimerFires) written out with ENABLED <<TimerFires>>_vars computed
\* (it is TimerDue): the event loop does not leave a due timeout waiting
\* forever.
TimerFairness == []<>(~TimerDue) \/ []<><<TimerFires>>_vars

\* The lifecycle under the host's scheduling: the clock does not stop while
\* it may advance, and the event loop runs the callback of a timeout that is
\* due (commands and capture sources may or may not act).
SpecLive == Init /\ [][Next]_vars /\ WF_vars(Tick) /\ TimerFairness

\* Every operation that starts, ends or fills a session, in any order, with
\* the clock left out (and no observer registered: an observer changes nothing
\* the manager holds).  Summaries and extraction are in NextRecords.
NextAll ==
  \/ StartSession
  \/ EndSession
  \/ AddEvent
  \/ TimerFiresAnyTime
  \/ Dispose
  \/ AddTask
  \/ AddIssue

SpecAll == Init /\ [][NextAll]_vars

\* The records of sessions: sessions start and end while tasks and issues
\* are added by hand and by extraction and summaries are set (no event is
\* captured: events touch no task, issue or summary).
NextRecords ==
  \/ StartSession
  \/ EndSession
  \/ AddTask
  \/ AddIssue
  \/ UpdateSummary
  \/ ExtractTask
  \/ ExtractIssue

SpecRecords == Init /\ [][NextRecords]_vars

\* The lifecycle with observers of every kind, the clock left out.
NextObservers ==
  \/ OnSessionEndOfAnyKind
  \/ StartSession
  \/ EndSession
  \/ AddEvent
  \/ TimerFiresAnyTime
  \/ Dispose

SpecObservers == Init /\ [][NextObservers]_vars

\* ------------------------------------------- a stand-alone EventBuffer

\* new EventBuffer(maxSize) with a flush callback that collects its batches.
InitBuffer ==
  /\ buffer = <<>>
  /\ maxSize \in 1..MaxCap
  /\ flushCallback = "collect"
  /\ currentSession = Null
  /\ heap = <<>>
  /\ sessions = <<>>
  /\ lastActivityTime = 0
  /\ sessionTimeoutTimer = Null
  /\ onSessionEndCallbacks = <<>>
  /\ pendingTimers = {}
  /\ timersCreated = 0
  /\ scheduledFor = <<>>
  /\ now = 0
  /\ nextEvent = 1
  /\ idsGenerated = 0
  /\ delivered = <<>>
  /\ notified = <<>>
  /\ added = <<>>
  /\ last = Did("new", Null, Null, Null)
  /\ oplog = <<>>
  /\ StoreNotOpened
  /\ SyncerNotConfigured
  /\ HostNotActivated

\* What one call of the buffer did: the buffer before and after, the batches
\* the callback received during the call, and what the call returned.
Call(op, event, ret) ==
  [op |-> op, event |-> event, pre |-> buffer,
   calls |-> SubSeq(delivered', Len(delivered) + 1, Len(delivered')),
   ret |-> ret, post |-> buffer']

Push ==
  /\ Len(oplog) < MaxOps
  /\ Becomes(push(State, nextEvent))
  /\ nextEvent' = nextEvent + 1
  /\ oplog' = Append(oplog, Call("push", nextEvent, <<>>))
  /\ UNCHANGED last

Flush ==
  /\ Len(oplog) < MaxOps
  /\ Becomes(flush(State))
  /\ oplog' = Append(oplog, Call("flush", Null, FlushResult(State)))
  /\ UNCHANGED <<nextEvent, last>>

NextBuffer ==
  \/ Push
  \/ Flush

SpecBuffer == InitBuffer /\ [][NextBuffer]_vars

\* ----------------------------------------------------------- LocalDb

\* new Date(value) of a Date or of the ISO string of one.
NewDate(value) == DateAt(value.ms)

\* value ? ... : ... on an optional time: undefined is falsy.
Truthy(value) == value.type # "undefined"

\* What JSON.stringify writes for a time: Date.prototype.toJSON gives the
\* ISO string; a string is written as it is; undefined is left out.
ToJson(value) == IF value.type = "Date" THEN IsoAt(value.ms) ELSE value

\* JSON.stringify on the entries of an Event[], Task[] or Issue[].
StringifyEvents(events) ==
  [i \in 1..Len(events) |-> [timestamp |-> ToJson(events[i].timestamp)]]
StringifyTasks(tasks) ==
  [i \in 1..Len(tasks) |-> [createdAt |-> ToJson(tasks[i].createdAt),
                            completedAt |-> ToJson(tasks[i].completedAt)]]
StringifyIssues(issues) ==
  [i \in 1..Len(issues) |-> [createdAt |-> ToJson(issues[i].createdAt),
                             resolvedAt |-> ToJson(issues[i].resolvedAt)]]

\* JSON.stringify of one session: every Date at every depth is written as
\* its ISO string, those inside summary.issuesResolved included.
Stringify(session) ==
  [id |-> session.id,
   startTime |-> ToJson(session.startTime),
   endTime |-> ToJson(session.endTime),
   events |-> StringifyEvents(session.events),
   tasks |-> StringifyTasks(session.tasks),
   issues |-> StringifyIssues(session.issues),
   summary |-> [present |-> session.summary.present,
                issuesResolved |-> StringifyIssues(session.summary.issuesResolved)]]

\* reviveSession spreads ...raw and names no summary: the summary is kept as
\* JSON.parse returned it.
ReviveSummary(summary) == summary

\* LocalDb.reviveSession(raw)
reviveSession(raw) ==
  [id |-> raw.id,
   startTime |-> NewDate(raw.startTime),
   endTime |-> IF Truthy(raw.endTime) THEN NewDate(raw.endTime) ELSE Undefined,
   events |-> [i \in 1..Len(raw.events) |->
                 [timestamp |-> NewDate(raw.events[i].timestamp)]],
   tasks |-> [i \in 1..Len(raw.tasks) |->
                [createdAt |-> NewDate(raw.tasks[i].createdAt),
                 completedAt |-> IF Truthy(raw.tasks[i].completedAt)
                                   THEN NewDate(raw.tasks[i].completedAt)
                                   ELSE Undefined]],
   issues |-> [i \in 1..Len(raw.issues) |->
                 [createdAt |-> NewDate(raw.issues[i].createdAt),
                  resolvedAt |-> IF Truthy(raw.issues[i].resolvedAt)
                                   THEN NewDate(raw.issues[i].resolvedAt)
                                   ELSE Undefined]],
   summary |-> ReviveSummary(raw.summary)]

\* LocalDb.load(): the sessions of the document in the file, each revived;
\* none when there is no file.  JSON.parse gives back the plain data that was
\* written: every time in it is a string.
loadTry(file) ==
  IF file.kind = "absent"
    THEN [outcome |-> "no file", sessions |-> <<>>]
    ELSE IF file.kind = "unreadable"
      THEN [outcome |-> "raised", sessions |-> <<>>]
      ELSE IF file.kind \in {"corrupt", "partial"}
        THEN [outcome |-> "raised", sessions |-> <<>>]
        ELSE IF file.kind = "no sessions"
          THEN [outcome |-> "returned as parsed", sessions |-> <<>>]
          ELSE [outcome |-> "returned",
                sessions |-> [i \in 1..Len(file.sessions) |->
                                reviveSession(file.sessions[i])]]

load(file) ==
  IF loadTry(file).outcome = "returned"
    THEN loadTry(file).sessions
    ELSE <<>>

\* if (parsed.sessions) { ... } return parsed: what was parsed is returned
\* whether or not it has a sessions list; the two returns of the default
\* { sessions: [] } have one.
loadHasSessions(file) == loadTry(file).outcome # "returned as parsed"

\* A variant of the constructor whose load() has no catch.
LocalDbUncaught(file) ==
  [raised |-> loadTry(file).outcome = "raised", sessions |-> load(file),
   list |-> loadHasSessions(file)]

\* new LocalDb(storagePath): whether it raised, this.data.sessions, and
\* whether that is a list.
LocalDb(file) ==
  [raised |-> FALSE, sessions |-> load(file), list |-> loadHasSessions(file)]

\* LocalDb.save(): writeFileSync(dbPath, JSON.stringify(this.data)), the
\* whole document.
save(stored) ==
  [kind |-> "document",
   sessions |-> [i \in 1..Len(stored) |-> Stringify(stored[i])]]

\* this.data.sessions.findIndex((s) => s.id === session.id): the first
\* match, or 0 for the source's -1.
FindIndex(stored, id) ==
  LET hits == {i \in 1..Len(stored) : stored[i].id = id}
  IN  IF hits = {} THEN 0 ELSE CHOOSE i \in hits : \A j \in hits : i <= j

\* Variant: saveSession pushes the session whether or not its id is stored.
UpsertAlwaysPushes(stored, session) == Append(stored, session)

\* if (index >= 0) this.data.sessions[index] = session; else push(session)
Upsert(stored, session) ==
  LET index == FindIndex(stored, session.id)
  IN  IF index > 0
        THEN [stored EXCEPT ![index] = session]
        ELSE Append(stored, session)

\* LocalDb.saveSession(session): the sessions in memory after it (save()
\* then writes them).
saveSession(stored, session) == Upsert(stored, session)

\* A variant of deleteSession that also drops the sessions with a smaller
\* id.
deleteSessionAndSmaller(stored, sessionId) ==
  SelectSeq(stored, LAMBDA session : session.id > sessionId)

\* LocalDb.deleteSession(sessionId): the sessions the filter keeps (the
\* action then writes them).
deleteSession(stored, sessionId) ==
  SelectSeq(stored, LAMBDA session : session.id # sessionId)

\* The local day an instant falls in, and the instant a local day begins:
\* day 0 has zone ticks and every later day has DayTicks.
DayOf(t) == IF t < zone THEN 0 ELSE 1 + ((t - zone) \div DayTicks)
Midnight(day) == IF day = 0 THEN 0 ELSE zone + (day - 1) * DayTicks

\* startOfDay.setHours(0, 0, 0, 0): the local midnight at or before t.
StartOfDay(t) == Midnight(DayOf(t))

\* Variant: the end of the day is taken to be the next local midnight.
EndOfDayIsNextMidnight(t) == Midnight(DayOf(t) + 1)

\* endOfDay.setHours(23, 59, 59, 999): the last instant of t's local day.
EndOfDay(t) == Midnight(DayOf(t) + 1) - 1

\* sort((a, b) => a.startTime.getTime() - b.startTime.getTime()) is stable:
\* a session goes after the ones that start no later.
RECURSIVE InsertByStartTime(_, _)
InsertByStartTime(sorted, session) ==
  IF sorted = <<>>
    THEN <<session>>
    ELSE IF Head(sorted).startTime.ms <= session.startTime.ms
           THEN <<Head(sorted)>> \o InsertByStartTime(Tail(sorted), session)
           ELSE <<session>> \o sorted

RECURSIVE SortByStartTime(_)
SortByStartTime(list) ==
  IF list = <<>>
    THEN <<>>
    ELSE InsertByStartTime(SortByStartTime(SubSeq(list, 1, Len(list) - 1)),
                           list[Len(list)])

\* LocalDb.getSessionsByDate(date): what it returns (filter makes a new
\* array, which is the one sorted).
getSessionsByDate(stored, date) ==
  LET startOfDay == StartOfDay(date.ms)
      endOfDay   == EndOfDay(date.ms)
  IN  SortByStartTime(
        SelectSeq(stored, LAMBDA session :
                    /\ session.startTime.ms >= startOfDay
                    /\ session.startTime.ms <= endOfDay))

\* Array.prototype.sort with (a, b) => b.startTime.getTime() -
\* a.startTime.getTime(): stable, latest first.
RECURSIVE InsertByStartTimeDescending(_, _)
InsertByStartTimeDescending(sorted, session) ==
  IF sorted = <<>>
    THEN <<session>>
    ELSE IF Head(sorted).startTime.ms >= session.startTime.ms
           THEN <<Head(sorted)>>
                  \o InsertByStartTimeDescending(Tail(sorted), session)
           ELSE <<session>> \o sorted

RECURSIVE SortByStartTimeDescending(_)
SortByStartTimeDescending(list) ==
  IF list = <<>>
    THEN <<>>
    ELSE InsertByStartTimeDescending(
           SortByStartTimeDescending(SubSeq(list, 1, Len(list) - 1)),
           list[Len(list)])

\* A variant of getAllSessions that sorts earliest first.
getAllSessionsAscending(stored) == SortByStartTime(stored)

\* LocalDb.getAllSessions(): what it returns, a sorted copy of the list.
getAllSessions(stored) == SortByStartTimeDescending(stored)

\* The sessions the store is handed.  A bare session may start at any
\* instant; one with an end time, an event, a completed task and an open
\* issue, and one that also has a summary with a resolved issue (what
\* Summarizer.summarizeSession returns), start at instant 0.
BareSession(id, t) ==
  [id |-> id, startTime |-> DateAt(t), endTime |-> Undefined, events |-> <<>>,
   tasks |-> <<>>, issues |-> <<>>, summary |-> NoSummary]

FilledSession(id) ==
  [BareSession(id, 0) EXCEPT
     !.endTime = DateAt(1),
     !.events = <<[timestamp |-> DateAt(0)]>>,
     !.tasks = <<[createdAt |-> DateAt(0), completedAt |-> DateAt(1)]>>,
     !.issues = <<[createdAt |-> DateAt(1), resolvedAt |-> Undefined]>>]

SummarizedSession(id) ==
  [FilledSession(id) EXCEPT
     !.summary = [present |-> TRUE,
                  issuesResolved |->
                    <<[createdAt |-> DateAt(1), resolvedAt |-> DateAt(1)]>>]]

SessionsToStore ==
  {BareSession(id, t) : id \in 1..MaxStored, t \in Instants}
    \cup {FilledSession(id) : id \in 1..MaxStored}
    \cup {SummarizedSession(id) : id \in 1..MaxStored}

\* After new SessionManager() and new LocalDb(storagePath) on a path with no
\* file, in some time zone.
InitStore ==
  /\ buffer = <<>>
  /\ maxSize = MaxCap
  /\ flushCallback = "session"
  /\ currentSession = Null
  /\ heap = <<>>
  /\ sessions = <<>>
  /\ lastActivityTime = 0
  /\ sessionTimeoutTimer = Null
  /\ onSessionEndCallbacks = <<>>
  /\ pendingTimers = {}
  /\ timersCreated = 0
  /\ scheduledFor = <<>>
  /\ now = 0
  /\ nextEvent = 1
  /\ idsGenerated = 0
  /\ delivered = <<>>
  /\ notified = <<>>
  /\ added = <<>>
  /\ last = Did("new", Null, Null, Null)
  /\ oplog = <<>>
  /\ data = LocalDb(NoFile).sessions
  /\ hasSessions = LocalDb(NoFile).list
  /\ dbFile = NoFile
  /\ zone \in FirstDays
  /\ storeLast = StoreDid("new", <<>>, Null)
  /\ writer = NoWrite
  /\ readerSaw = NoFile
  /\ SyncerNotConfigured
  /\ HostNotActivated

\* this.data.sessions.findIndex, .filter or [...this.data.sessions] where
\* the list is undefined: a TypeError, which nothing in the store catches;
\* nothing is changed or written.
StoreRaises(op, arg) ==
  /\ storeLast' = StoreDid(op, arg, Null)
  /\ UNCHANGED <<data, dbFile>>

SaveSession ==
  \E session \in SessionsToStore :
    /\ IF hasSessions
         THEN /\ data' = saveSession(data, session)
              /\ dbFile' = save(data')
              /\ storeLast' = StoreDid("saveSession", session, Null)
         ELSE StoreRaises("saveSession raised", session)
    /\ UNCHANGED <<zone, managerVars, fileVars, syncVars, hostVars>>

\* deleteSession returns nothing: storeLast.ret is how many sessions the
\* call dropped.
DeleteSession ==
  \E sessionId \in 1..MaxStored :
    /\ IF hasSessions
         THEN /\ data' = deleteSession(data, sessionId)
              /\ dbFile' = save(data')
              /\ storeLast' = StoreDid("deleteSession", sessionId,
                                       Len(data) - Len(data'))
         ELSE StoreRaises("deleteSession raised", sessionId)
    /\ UNCHANGED <<zone, managerVars, fileVars, syncVars, hostVars>>

GetSessionsByDate ==
  \E t \in Instants :
    /\ IF hasSessions
         THEN /\ storeLast' = StoreDid("getSessionsByDate", DateAt(t),
                                       getSessionsByDate(data, DateAt(t)))
              /\ UNCHANGED <<data, dbFile>>
         ELSE StoreRaises("getSessionsByDate raised", DateAt(t))
    /\ UNCHANGED <<zone, managerVars, fileVars, syncVars, hostVars>>

GetAllSessions ==
  /\ IF hasSessions
       THEN /\ storeLast' = StoreDid("getAllSessions", Null,
                                     getAllSessions(data))
            /\ UNCHANGED <<data, dbFile>>
       ELSE StoreRaises("getAllSessions raised", Null)
  /\ UNCHANGED <<zone, managerVars, fileVars, syncVars, hostVars>>

\* The host is restarted: a new LocalDb on the same path loads the file.
\* storeLast keeps the sessions the store held in memory before.
Reopen ==
  /\ data' = LocalDb(dbFile).sessions
  /\ hasSessions' = LocalDb(dbFile).list
  /\ storeLast' = StoreDid(IF LocalDb(dbFile).raised THEN "new raised"
                                                     ELSE "new", data, Null)
  /\ UNCHANGED <<dbFile, zone, writer, readerSaw, managerVars, syncVars, hostVars>>

NextStore ==
  \/ SaveSession
  \/ DeleteSession
  \/ GetSessionsByDate
  \/ GetAllSessions
  \/ Reopen

SpecStore == InitStore /\ [][NextStore]_vars

\* The files a new LocalDb may find at dbPath: none, one that cannot be
\* read or parsed, one that parses and has no sessions list, and a document
\* the store wrote.
FilesOpened ==
  {NoFile, Unreadable, Unparseable, NoSessionsList,
   save(<<FilledSession(1)>>)}

\* After new SessionManager() and new LocalDb(storagePath) where the file at
\* dbPath is any of FilesOpened, in some time zone.
InitOpen ==
  /\ buffer = <<>>
  /\ maxSize = MaxCap
  /\ flushCallback = "session"
  /\ currentSession = Null
  /\ heap = <<>>
  /\ sessions = <<>>
  /\ lastActivityTime = 0
  /\ sessionTimeoutTimer = Null
  /\ onSessionEndCallbacks = <<>>
  /\ pendingTimers = {}
  /\ timersCreated = 0
  /\ scheduledFor = <<>>
  /\ now = 0
  /\ nextEvent = 1
  /\ idsGenerated = 0
  /\ delivered = <<>>
  /\ notified = <<>>
  /\ added = <<>>
  /\ last = Did("new", Null, Null, Null)
  /\ oplog = <<>>
  /\ dbFile \in FilesOpened
  /\ data = LocalDb(dbFile).sessions
  /\ hasSessions = LocalDb(dbFile).list
  /\ zone \in FirstDays
  /\ storeLast = StoreDid("new", <<>>, Null)
  /\ writer = NoWrite
  /\ readerSaw = NoFile
  /\ SyncerNotConfigured
  /\ HostNotActivated

\* The first call of the store after it is constructed.
FirstSaveSession == storeLast.op = "new" /\ SaveSession
FirstDeleteSession == storeLast.op = "new" /\ DeleteSession
FirstGetSessionsByDate == storeLast.op = "new" /\ GetSessionsByDate
FirstGetAllSessions == storeLast.op = "new" /\ GetAllSessions

NextOpen ==
  \/ FirstSaveSession
  \/ FirstDeleteSession
  \/ FirstGetSessionsByDate
  \/ FirstGetAllSessions

SpecOpen == InitOpen /\ [][NextOpen]_vars

\* ------------------------------------------------- LocalDb and its file

\* What new LocalDb(storagePath) may find at dbPath when the host starts.
FilesFound == {NoFile, Unparseable, Unreadable}

\* After new LocalDb(storagePath) on whatever file is there; the manager is
\* as it is after new SessionManager().
InitFiles ==
  /\ buffer = <<>>
  /\ maxSize = MaxCap
  /\ flushCallback = "session"
  /\ currentSession = Null
  /\ heap = <<>>
  /\ sessions = <<>>
  /\ lastActivityTime = 0
  /\ sessionTimeoutTimer = Null
  /\ onSessionEndCallbacks = <<>>
  /\ pendingTimers = {}
  /\ timersCreated = 0
  /\ scheduledFor = <<>>
  /\ now = 0
  /\ nextEvent = 1
  /\ idsGenerated = 0
  /\ delivered = <<>>
  /\ notified = <<>>
  /\ added = <<>>
  /\ last = Did("new", Null, Null, Null)
  /\ oplog = <<>>
  /\ dbFile \in FilesFound
  /\ data = LocalDb(dbFile).sessions
  /\ hasSessions = LocalDb(dbFile).list
  /\ zone = DayTicks
  /\ storeLast = StoreDid(IF LocalDb(dbFile).raised THEN "new raised"
                                                    ELSE "new", <<>>, Null)
  /\ writer = NoWrite
  /\ readerSaw = NoFile
  /\ SyncerNotConfigured
  /\ HostNotActivated

\* The sessions handed to the store in this specification.
SessionsToWrite == {BareSession(id, 0) : id \in 1..MaxStored}

\* save() up to the point where writeFileSync has opened the file: the list
\* is already changed, the file is emptied, the document is still to be
\* written.  The call is synchronous: until it is over nothing else of the
\* host runs, but whatever else reads the file can read it now.
WriteBegins(op, arg, stored) ==
  /\ writer = NoWrite
  /\ hasSessions
  /\ data' = stored
  /\ dbFile' = Truncated
  /\ writer' = [op |-> op, arg |-> arg, content |-> save(stored)]
  /\ storeLast' = StoreDid("writing", arg, Null)
  /\ UNCHANGED <<hasSessions, zone, readerSaw, managerVars, syncVars, hostVars>>

SaveSessionBegins ==
  \E session \in SessionsToWrite :
    WriteBegins("saveSession", session, saveSession(data, session))

DeleteSessionBegins ==
  \E sessionId \in 1..MaxStored :
    WriteBegins("deleteSession", sessionId, deleteSession(data, sessionId))

\* writeFileSync returns: the whole document is in the file.
WriteCompletes ==
  /\ writer # NoWrite
  /\ dbFile' = writer.content
  /\ storeLast' = StoreDid(writer.op, writer.arg, Null)
  /\ writer' = NoWrite
  /\ UNCHANGED <<data, hasSessions, zone, readerSaw, managerVars, syncVars, hostVars>>

\* writeFileSync raises after it opened the file (the disk is full): save()
\* catches and logs, the file stays as far as it was written.
WriteRaises ==
  /\ writer # NoWrite
  /\ storeLast' = StoreDid("write failed", writer.arg, Null)
  /\ writer' = NoWrite
  /\ UNCHANGED <<data, hasSessions, dbFile, zone, readerSaw, managerVars,
                 syncVars, hostVars>>

\* Something outside the host reads the file at dbPath.
ReaderReads ==
  /\ readerSaw' = dbFile
  /\ UNCHANGED <<data, hasSessions, dbFile, zone, storeLast, writer,
                 managerVars, syncVars, hostVars>>

\* Something outside the host damages the file or makes it unreadable.
FileDamaged ==
  /\ writer = NoWrite
  /\ dbFile.kind = "document"
  /\ dbFile' \in {Unparseable, Unreadable}
  /\ storeLast' = StoreDid("file damaged", Null, Null)
  /\ UNCHANGED <<data, hasSessions, zone, writer, readerSaw, managerVars,
                 syncVars, hostVars>>

\* Between two calls of the store, the host calls getAllSessions.
ReadsAll ==
  /\ writer = NoWrite
  /\ GetAllSessions

\* Between two calls of the store, the host is restarted.
Restarts ==
  /\ writer = NoWrite
  /\ Reopen

NextFiles ==
  \/ SaveSessionBegins
  \/ DeleteSessionBegins
  \/ WriteCompletes
  \/ WriteRaises
  \/ ReaderReads
  \/ FileDamaged
  \/ ReadsAll
  \/ Restarts

SpecFiles == InitFiles /\ [][NextFiles]_vars

\* ------------------------------------------------------------ GitSyncer

\* The syncer as one record, so that a method is an operator on it.
Syncer ==
  [git |-> git, isInitialized |-> isInitialized, syncInterval |-> syncInterval,
   intervalActive |-> intervalActive, runs |-> runs]

SyncerBecomes(e) ==
  /\ git' = e.git
  /\ isInitialized' = e.isInitialized
  /\ syncInterval' = e.syncInterval
  /\ intervalActive' = e.intervalActive
  /\ runs' = e.runs

\* One git operation and how it ended.
GitCall(cmd, outcome) == [cmd |-> cmd, outcome |-> outcome]

\* GitSyncer.startAutoSync(): clearInterval of a handle held, then
\* setInterval.
startAutoSync(e) == [e EXCEPT !.syncInterval = TRUE, !.intervalActive = TRUE]

\* What initialize() may find: whether the output directory can be made,
\* what checkIsRepo answers, and whether init and addRemote succeed.
InitializeFinds ==
  [dir : {"ok", "fail"}, isRepo : {"yes", "no", "fail"},
   init : {"ok", "fail"}, addRemote : {"ok", "fail"}]

\* A variant of initialize that marks the syncer ready and starts the
\* interval before it asks git anything.
initializeReadyFirst(e, configured, found) ==
  IF ~configured
    THEN [engine |-> e, ret |-> "false", calls |-> <<>>]
    ELSE IF found.dir = "fail"
      THEN [engine |-> e, ret |-> "raised", calls |-> <<>>]
      ELSE LET ready == startAutoSync([e EXCEPT !.git = TRUE,
                                                !.isInitialized = TRUE])
           IN  IF found.isRepo = "fail"
                 THEN [engine |-> ready, ret |-> "false",
                       calls |-> <<GitCall("checkIsRepo", "fail")>>]
                 ELSE [engine |-> ready, ret |-> "true",
                       calls |-> <<GitCall("checkIsRepo", found.isRepo)>>]

\* GitSyncer.initialize(): the syncer after it, what it returned and the git
\* operations it made.  mkdirSync and simpleGit() are outside the try.
initialize(e, configured, found) ==
  IF ~configured
    THEN [engine |-> e, ret |-> "false", calls |-> <<>>]
    ELSE IF found.dir = "fail"
      THEN [engine |-> e, ret |-> "raised", calls |-> <<>>]
      ELSE LET opened == [e EXCEPT !.git = TRUE]
               ready  == startAutoSync([opened EXCEPT !.isInitialized = TRUE])
               asked  == <<GitCall("checkIsRepo", found.isRepo)>>
           IN  IF found.isRepo = "fail"
                 THEN [engine |-> opened, ret |-> "false", calls |-> asked]
                 ELSE IF found.isRepo = "yes"
                   THEN [engine |-> ready, ret |-> "true", calls |-> asked]
                   ELSE IF found.init = "fail"
                     THEN [engine |-> opened, ret |-> "false",
                           calls |-> asked \o <<GitCall("init", "fail")>>]
                     ELSE IF found.addRemote = "fail"
                       THEN [engine |-> opened, ret |-> "false",
                             calls |-> asked \o <<GitCall("init", "ok"),
                                                  GitCall("addRemote", "fail")>>]
                       ELSE [engine |-> ready, ret |-> "true",
                             calls |-> asked \o <<GitCall("init", "ok"),
                                                  GitCall("addRemote", "ok")>>]

\* A call of sync(): the git operation it awaits (or "done"), the git
\* operations that completed in it, and what it returned.
Returns(run, call, value) ==
  [pc |-> "done", calls |-> Append(run.calls, call), result |-> value]

Awaits(run, call, next) ==
  [pc |-> next, calls |-> Append(run.calls, call), result |-> "pending"]

\* A variant of NewRun that looks at the git handle only.
NewRunChecksHandleOnly(e) ==
  IF ~e.git
    THEN [pc |-> "done", calls |-> <<>>, result |-> "false"]
    ELSE [pc |-> "status", calls |-> <<>>, result |-> "pending"]

\* sync() up to its first await: not ready, it returns false at once.
NewRun(e) ==
  IF ~e.git \/ ~e.isInitialized
    THEN [pc |-> "done", calls |-> <<>>, result |-> "false"]
    ELSE [pc |-> "status", calls |-> <<>>, result |-> "pending"]

\* A variant of afterStatus that goes on to add when nothing changed.
afterStatusAlwaysAdds(run, outcome) ==
  IF outcome = "fail"
    THEN Returns(run, GitCall("status", outcome), "false")
    ELSE Awaits(run, GitCall("status", outcome), "add")

\* sync() from the answer of git.status() to the next await or return.
afterStatus(run, outcome) ==
  IF outcome = "fail"
    THEN Returns(run, GitCall("status", outcome), "false")
    ELSE IF outcome = "clean"
      THEN Returns(run, GitCall("status", outcome), "true")
      ELSE Awaits(run, GitCall("status", outcome), "add")

\* A variant of afterCommit without the outer catch.
afterCommitUncaught(run, outcome) ==
  IF outcome = "fail"
    THEN Returns(run, GitCall("commit", outcome), "raised")
    ELSE Awaits(run, GitCall("commit", outcome), "pull")

\* From git.add('.') and from git.commit(message): a failure is caught by
\* the outer catch, which returns false.
afterAdd(run, outcome) ==
  IF outcome = "fail"
    THEN Returns(run, GitCall("add", outcome), "false")
    ELSE Awaits(run, GitCall("add", outcome), "commit")

afterCommit(run, outcome) ==
  IF outcome = "fail"
    THEN Returns(run, GitCall("commit", outcome), "false")
    ELSE Awaits(run, GitCall("commit", outcome), "pull")

\* A variant of afterPull in which a failing pull ends the run.
afterPullStopsOnFailure(run, outcome) ==
  IF outcome = "fail"
    THEN Returns(run, GitCall("pull", outcome), "false")
    ELSE Awaits(run, GitCall("pull", outcome), "push")

\* From git.pull('origin', 'main', --rebase): its own catch logs a failure.
afterPull(run, outcome) == Awaits(run, GitCall("pull", outcome), "push")

\* A variant of afterRetry that pushes once more after a failed retry.
afterRetryAgain(run, outcome) ==
  IF outcome = "ok"
    THEN Returns(run, GitCall("push -u", outcome), "true")
    ELSE IF Len(run.calls) < 6
      THEN Awaits(run, GitCall("push -u", outcome), "push -u")
      ELSE Returns(run, GitCall("push -u", outcome), "false")

\* From git.push('origin', 'main') and from the retry with -u.
afterPush(run, outcome) ==
  IF outcome = "ok"
    THEN Returns(run, GitCall("push", outcome), "true")
    ELSE Awaits(run, GitCall("push", outcome), "push -u")

afterRetry(run, outcome) ==
  IF outcome = "ok"
    THEN Returns(run, GitCall("push -u", outcome), "true")
    ELSE Returns(run, GitCall("push -u", outcome), "false")

\* How the git operation a run awaits may end.
Outcomes(pc) ==
  IF pc = "status" THEN {"clean", "dirty", "fail"} ELSE {"ok", "fail"}

\* sync() from one await to the next.
Continue(run, outcome) ==
  CASE run.pc = "status"  -> afterStatus(run, outcome)
    [] run.pc = "add"     -> afterAdd(run, outcome)
    [] run.pc = "commit"  -> afterCommit(run, outcome)
    [] run.pc = "pull"    -> afterPull(run, outcome)
    [] run.pc = "push"    -> afterPush(run, outcome)
    [] run.pc = "push -u" -> afterRetry(run, outcome)

\* GitSyncer.sync(): a new call, run up to its first await.
sync(e) == [e EXCEPT !.runs = Append(@, NewRun(e))]

\* GitSyncer.forceSync(): withProgress is handed a task that calls sync()
\* and is not awaited; the method returns true.
forceSync(e) == [engine |-> sync(e), ret |-> "true"]

\* The command logClose.syncToGithub: initialize() if the syncer is not
\* ready, and forceSync() unless that initialize() did not return true.
syncToGithub(e, configured, found) ==
  IF e.isInitialized
    THEN [engine |-> forceSync(e).engine, forced |-> TRUE, calls |-> <<>>]
    ELSE IF initialize(e, configured, found).ret = "true"
      THEN [engine |-> forceSync(initialize(e, configured, found).engine).engine,
            forced |-> TRUE,
            calls |-> initialize(e, configured, found).calls]
      ELSE [engine |-> initialize(e, configured, found).engine,
            forced |-> FALSE,
            calls |-> initialize(e, configured, found).calls]

\* clearInterval(this.syncInterval) if a handle is held.
clearSyncInterval(e) ==
  [e EXCEPT !.intervalActive = IF e.syncInterval THEN FALSE ELSE @]

\* A variant of dispose that leaves the interval set.
syncerDisposeKeepsInterval(e) ==
  [engine |-> sync(e), timerAtSync |-> e.intervalActive]

\* GitSyncer.dispose(): clearInterval of the handle held, then sync(), which
\* is neither awaited nor returned; timerAtSync is whether the interval was
\* still set when sync() was called.
syncerDispose(e) ==
  [engine |-> sync(clearSyncInterval(e)),
   timerAtSync |-> clearSyncInterval(e).intervalActive]

\* After new SessionManager(), with no LocalDb, and new GitSyncer() with the
\* remote repository configured or not.
InitSync ==
  /\ buffer = <<>>
  /\ maxSize = MaxCap
  /\ flushCallback = "session"
  /\ currentSession = Null
  /\ heap = <<>>
  /\ sessions = <<>>
  /\ lastActivityTime = 0
  /\ sessionTimeoutTimer = Null
  /\ onSessionEndCallbacks = <<>>
  /\ pendingTimers = {}
  /\ timersCreated = 0
  /\ scheduledFor = <<>>
  /\ now = 0
  /\ nextEvent = 1
  /\ idsGenerated = 0
  /\ delivered = <<>>
  /\ notified = <<>>
  /\ added = <<>>
  /\ last = Did("new", Null, Null, Null)
  /\ oplog = <<>>
  /\ StoreNotOpened
  /\ gitRepo \in BOOLEAN
  /\ SyncerNew
  /\ HostNotActivated

\* activate() and the syncToGithub command call initialize() when the
\* syncer is not ready.
Initialize ==
  /\ ~disposed
  /\ ~isInitialized
  /\ \E found \in InitializeFinds :
       /\ SyncerBecomes(initialize(Syncer, gitRepo, found).engine)
       /\ syncLast' = SyncDid("initialize", Null,
                              initialize(Syncer, gitRepo, found).ret,
                              initialize(Syncer, gitRepo, found).calls)
  /\ UNCHANGED <<gitRepo, disposed, managerVars, storeVars, hostVars>>

\* The user sets or clears logClose.gitRepo.
ConfigChanges ==
  /\ gitRepo' = ~gitRepo
  /\ syncLast' = SyncDid("config", Null, "none", <<>>)
  /\ UNCHANGED <<git, isInitialized, syncInterval, intervalActive, runs,
                 disposed, managerVars, storeVars, hostVars>>

\* A call of sync() by op.
StartsSync(op) ==
  /\ Len(runs) < MaxRuns
  /\ SyncerBecomes(sync(Syncer))
  /\ syncLast' = SyncDid(op, Len(runs) + 1, NewRun(Syncer).result, <<>>)
  /\ UNCHANGED <<gitRepo, disposed, managerVars, storeVars, hostVars>>

\* The interval set by startAutoSync fires.
IntervalFires ==
  /\ intervalActive
  /\ StartsSync("interval")

\* deactivate(): a final sync() if the syncer is ready.
Deactivate ==
  /\ ~disposed
  /\ isInitialized
  /\ StartsSync("deactivate")

ForceSync ==
  /\ ~disposed
  /\ Len(runs) < MaxRuns
  /\ SyncerBecomes(forceSync(Syncer).engine)
  /\ syncLast' = SyncDid("forceSync", Len(runs) + 1, forceSync(Syncer).ret,
                         <<>>)
  /\ UNCHANGED <<gitRepo, disposed, managerVars, storeVars, hostVars>>

\* The user runs the command; syncLast.run is the call of sync() that its
\* forceSync() made, if it made one.
SyncToGithub ==
  /\ ~disposed
  /\ Len(runs) < MaxRuns
  /\ \E found \in InitializeFinds :
       /\ SyncerBecomes(syncToGithub(Syncer, gitRepo, found).engine)
       /\ syncLast' =
            SyncDid("syncToGithub",
                    IF syncToGithub(Syncer, gitRepo, found).forced
                      THEN Len(runs) + 1 ELSE Null,
                    "none", syncToGithub(Syncer, gitRepo, found).calls)
  /\ UNCHANGED <<gitRepo, disposed, managerVars, storeVars, hostVars>>

\* The host disposes of the extension's subscriptions, once: the syncer's
\* dispose() runs, and the commands are gone.
DisposeSyncer ==
  /\ ~disposed
  /\ Len(runs) < MaxRuns
  /\ SyncerBecomes(syncerDispose(Syncer).engine)
  /\ syncLast' = SyncDid("dispose", Len(runs) + 1,
                         IF syncerDispose(Syncer).timerAtSync
                           THEN "interval set" ELSE "none", <<>>)
  /\ disposed' = TRUE
  /\ UNCHANGED <<gitRepo, managerVars, storeVars, hostVars>>

\* The git operation a call of sync() awaits ends, and the call runs on to
\* its next await or to its return.
GitCompletes ==
  \E r \in 1..Len(runs) :
    /\ runs[r].pc # "done"
    /\ \E outcome \in Outcomes(runs[r].pc) :
         runs' = [runs EXCEPT ![r] = Continue(@, outcome)]
    /\ syncLast' = SyncDid("git", r, runs'[r].result, <<>>)
    /\ UNCHANGED <<gitRepo, git, isInitialized, syncInterval, intervalActive,
                   disposed, managerVars, storeVars, hostVars>>

NextSync ==
  \/ Initialize
  \/ ConfigChanges
  \/ IntervalFires
  \/ Deactivate
  \/ ForceSync
  \/ SyncToGithub
  \/ DisposeSyncer
  \/ GitCompletes

SpecSync == InitSync /\ [][NextSync]_vars

\* ----------------------------------------------------------- Summarizer

\* A field of the parsed object that is there, and one that is not.
Present(value) == [present |-> TRUE, value |-> value]
Absent == [present |-> FALSE, value |-> <<>>]

\* parsed.field || fallback
OrElse(field, fallback) == IF field.present THEN field.value ELSE fallback

\* The text of a summary: what the model wrote, the literal 'No summary
\* available', or `Session with ${events} events over ${duration}`.
Text(kind, events, duration) ==
  [kind |-> kind, events |-> events, duration |-> duration]

\* Summarizer.formatDuration(start, end), times in minutes: `${h}h ${m}m`
\* or `${m}m`; without an end the clock is read.
formatDuration(start, end, clock) ==
  LET endTime == IF end = NoTime THEN clock ELSE end
      minutes == endTime - start
      hours   == minutes \div MinutesPerHour
  IN  IF hours > 0
        THEN [h |-> hours, m |-> minutes % MinutesPerHour]
        ELSE [h |-> 0, m |-> minutes]

\* [...new Set(list)]: the first occurrence of each, in order.
RECURSIVE Unique(_)
Unique(list) ==
  IF list = <<>>
    THEN <<>>
    ELSE LET before == Unique(SubSeq(list, 1, Len(list) - 1))
         IN  IF list[Len(list)] \in Range(before)
               THEN before
               ELSE Append(before, list[Len(list)])

\* The file paths of the session's file events, in order.
FilePaths(events) ==
  LET fileEvents == SelectSeq(events, LAMBDA e : e.type = "file")
  IN  [i \in 1..Len(fileEvents) |-> fileEvents[i].filePath]

\* Array.prototype.slice(0, count)
Slice(list, count) ==
  SubSeq(list, 1, IF Len(list) < count THEN Len(list) ELSE count)

\* Summarizer.createFallbackSummary(session)
createFallbackSummary(session, clock) ==
  [summary |-> Text("computed", Len(session.events),
                    formatDuration(session.startTime, session.endTime, clock)),
   tasksCompleted |-> <<>>,
   issuesResolved |-> <<>>,
   keyConversations |-> <<>>,
   filesModified |-> Slice(Unique(FilePaths(session.events)), FallbackFiles)]

\* Summarizer.parseJsonResponse(response): the object in the text, or {} when
\* the text has no {...} or JSON.parse raises on it.
EmptyObject ==
  [summary |-> Absent, tasksCompleted |-> Absent, issuesResolved |-> Absent,
   keyConversations |-> Absent, filesModified |-> Absent, mappable |-> TRUE]

parseJsonResponse(response) ==
  IF response.object = "valid" THEN response.parsed ELSE EmptyObject

\* Summarizer.summarizeSession(session): what it resolves to.  The call of
\* the client and the use of the parsed object are inside the try, whose
\* catch returns the fallback; (parsed.issuesResolved || []).map raises when
\* issuesResolved is there and is not a list.
summarizeSession(session, response, clock) ==
  IF response.object = "call fails"
    THEN createFallbackSummary(session, clock)
    ELSE LET parsed == parseJsonResponse(response)
         IN  IF ~parsed.mappable
               THEN createFallbackSummary(session, clock)
               ELSE [summary |->
                       OrElse(parsed.summary, Text("placeholder", 0, [h |-> 0, m |-> 0])),
                     tasksCompleted |-> OrElse(parsed.tasksCompleted, <<>>),
                     issuesResolved |-> OrElse(parsed.issuesResolved, <<>>),
                     keyConversations |-> OrElse(parsed.keyConversations, <<>>),
                     filesModified |-> OrElse(parsed.filesModified, <<>>)]

\* The sessions handed to the summarizer: some terminal events, then file
\* events that name some number of different files; ended or not.
EventsOf(terminals, files, different) ==
  [i \in 1..(terminals + files) |->
     IF i <= terminals
       THEN [type |-> "terminal", filePath |-> 0]
       ELSE [type |-> "file", filePath |-> ((i - terminals) % different) + 1]]

SessionsToSummarize ==
  {[startTime |-> 0, endTime |-> end, events |-> EventsOf(terminals, files, different)] :
     end \in {NoTime, 0, MinutesPerHour - 1, MinutesPerHour + 1},
     terminals \in 0..1,
     files \in {0, 1, MaxFileEvents},
     different \in {1, MaxFileEvents}}

\* What the client's complete() may do: raise, or return a text without
\* {...}, with {...} that is not JSON, or with an object in it.
TheText == Text("written", 0, [h |-> 0, m |-> 0])

ParsedObjects ==
  {[summary |-> summary, tasksCompleted |-> tasks, issuesResolved |-> issues,
    keyConversations |-> Absent, filesModified |-> files,
    mappable |-> mappable] :
     summary \in {Absent, Present(TheText)},
     tasks \in {Absent, Present(<<"task">>)},
     issues \in {Absent, Present(<<>>)},
     files \in {Absent, Present(<<1>>)},
     mappable \in BOOLEAN}

Responses ==
  {[object |-> object, parsed |-> EmptyObject] :
     object \in {"call fails", "none", "invalid"}}
    \cup {[object |-> "valid", parsed |-> parsed] : parsed \in ParsedObjects}

\* After activate(), with new Summarizer(claudeClient): a session is about
\* to be summarized, the client will answer in some way, and the clock is
\* past the session's start.
InitSummary ==
  /\ buffer = <<>>
  /\ maxSize = MaxCap
  /\ flushCallback = "session"
  /\ currentSession = Null
  /\ heap = <<>>
  /\ sessions = <<>>
  /\ lastActivityTime = 0
  /\ sessionTimeoutTimer = Null
  /\ onSessionEndCallbacks = <<>>
  /\ pendingTimers = {}
  /\ timersCreated = 0
  /\ scheduledFor = <<>>
  /\ now = 0
  /\ nextEvent = 1
  /\ idsGenerated = 0
  /\ delivered = <<>>
  /\ notified = <<>>
  /\ added = <<>>
  /\ \E session \in SessionsToSummarize, response \in Responses,
        clock \in {1, MinutesPerHour} :
       last = Did("called", Null, Null,
                  [session |-> session, response |-> response,
                   clock |-> clock])
  /\ oplog = <<>>
  /\ StoreNotOpened
  /\ SyncerNotConfigured
  /\ HostNotActivated

\* summarizer.summarizeSession(session), awaited by the end-of-session
\* handler or by a command, resolves.
SummarizeSession ==
    /\ last.op = "called"
    /\ last' = Did("summarizeSession", Null,
                   summarizeSession(last.arg.session, last.arg.response,
                                    last.arg.clock),
                   last.arg)
    /\ UNCHANGED <<buffer, maxSize, flushCallback, currentSession, heap,
                   sessions, lastActivityTime, sessionTimeoutTimer,
                   onSessionEndCallbacks, pendingTimers, timersCreated,
                   scheduledFor, now, nextEvent, idsGenerated, delivered,
                   notified, added, oplog, storeVars, syncVars, hostVars>>

NextSummary == SummarizeSession

SpecSummary == InitSummary /\ [][NextSummary]_vars

\* ------------------------------------------------------ the extension

\* MarkdownExporter.formatDate(date): date.toISOString().split('T')[0], the
\* day of the instant in UTC.
formatDate(t) == t \div DayTicks

\* SessionManager.loadSessions(sessions)
loadSessions(st, loaded) == [st EXCEPT !.sessions = loaded]

\* A Session object of the manager as the store holds it and writes it: its
\* times are Dates.  (No event is captured in SpecHost, and no issue added:
\* the store's copy has none.)
AsStored(session) ==
  [id |-> session.id,
   startTime |-> DateAt(session.startTime),
   endTime |-> IF session.endTime = NoTime THEN Undefined
                                           ELSE DateAt(session.endTime),
   events |-> <<>>,
   tasks |-> [i \in 1..Len(session.tasks) |->
                [createdAt |-> DateAt(session.tasks[i].createdAt),
                 completedAt |-> Undefined]],
   issues |-> <<>>,
   summary |-> IF session.summary = Null
                 THEN NoSummary
                 ELSE [present |-> TRUE, issuesResolved |-> <<>>]]

\* What the extension's functions work on besides the manager: the store,
\* the exporter's documents, the functions at an await and the failures
\* nothing handled.  raised is not state: it says that the function called
\* last was left by an exception.
Host ==
  [data |-> data, dbFile |-> dbFile, storeLast |-> storeLast,
   claudeReady |-> claudeReady, diskFull |-> diskFull,
   exported |-> exported, awaiting |-> awaiting, unhandled |-> unhandled,
   raised |-> FALSE]

HostBecomes(h) ==
  \E next \in {h} :
    /\ data' = next.data
    /\ dbFile' = next.dbFile
    /\ storeLast' = next.storeLast
    /\ exported' = next.exported
    /\ awaiting' = next.awaiting
    /\ unhandled' = next.unhandled

\* LocalDb.save(): on a full disk writeFileSync raises once it has emptied
\* the file, and save() catches and logs.
dbSave(h) ==
  [h EXCEPT !.dbFile = IF h.diskFull THEN Truncated ELSE save(h.data)]

\* db.saveSession(session)
dbSaveSession(h, session) ==
  dbSave([h EXCEPT !.data = saveSession(@, AsStored(session)),
                   !.storeLast = StoreDid("saveSession", AsStored(session),
                                          Null)])

\* markdownExporter.exportSession(session): the session is appended to the
\* document of its day; nothing catches what writeFileSync raises.
exportSession(h, session) ==
  IF h.diskFull
    THEN [h EXCEPT !.raised = TRUE]
    ELSE [h EXCEPT !.exported =
            Append(@, [document |-> formatDate(session.startTime),
                       session |-> session.id])]

\* An async function of the extension at an await: the session it was
\* called for, which function it is ("observer" for the one registered with
\* onSessionEnd, "command" for the endSession command) and what ended the
\* session.
Awaiting(session, in, by) == [session |-> session, in |-> in, by |-> by]

\* The last statements of both functions: exportSession, outside every try.
\* When it raises, the promise of the async function is rejected: nothing
\* awaits the observer's (forEach drops it), and the command's goes back to
\* the host that called the command.
ExportsLast(h, session, in, by) ==
  LET done == exportSession(h, session)
  IN  IF done.raised
        THEN [done EXCEPT !.raised = FALSE,
                          !.unhandled = @ \cup {[in |-> in, by |-> by]}]
        ELSE done

\* Variant: the observer saves the session only after it is summarized.
onSessionEndHandlerSavesLater(h, st, session, by) ==
  IF h.claudeReady
    THEN [h EXCEPT !.awaiting = @ \cup {Awaiting(session, "observer", by)}]
    ELSE ExportsLast(h, st.heap[session], "observer", by)

\* The observer activate() registers, from its call to its first await (or
\* to its end where the client is not initialized).
onSessionEndHandler(h, st, session, by) ==
  LET saved == dbSaveSession(h, st.heap[session])
  IN  IF saved.claudeReady
        THEN [saved EXCEPT
                !.awaiting = @ \cup {Awaiting(session, "observer", by)}]
        ELSE ExportsLast(saved, st.heap[session], "observer", by)

\* The handler took the manager to st: if it ended a session, the observer
\* was called with it (the observer touches nothing of the manager before
\* its first await).
Observes(h, st, by) ==
  IF Len(st.notified) > Len(notified)
    THEN onSessionEndHandler(h, st, st.notified[Len(st.notified)].session, by)
    ELSE h

\* activate() has registered the observer.
Activated == onSessionEndCallbacks # <<>>

\* activate(), where no repository is configured: it registers the
\* observer, loads the sessions of the store (opened on no file: none) and
\* starts the first session.
Activate ==
  /\ ~Activated
  /\ LET registered == onSessionEnd(State, Observer(1, "returns"))
         loaded     == loadSessions(registered, getAllSessions(data))
     IN  ManagerBecomes(startSession(loaded))
  /\ last' = Did("activate", Null, Null, Null)
  /\ UNCHANGED <<nextEvent, oplog, storeVars, syncVars, hostVars>>

\* The command logClose.startSession.
StartSessionCommand ==
  /\ Activated /\ ~disposed
  /\ CanCreate(State)
  /\ \E next \in {startSession(State)} :
       /\ ManagerBecomes(next)
       /\ HostBecomes(Observes(Host, next, "startSession"))
       /\ last' = Did("startSession", currentSession, next.currentSession, Null)
  /\ UNCHANGED <<nextEvent, oplog, zone, fileVars, syncVars,
                 claudeReady, diskFull>>

\* The command logClose.endSession, up to its await.
EndSessionCommand ==
  /\ Activated /\ ~disposed
  /\ \E next \in {endSession(State)} :
       /\ ManagerBecomes(next)
       /\ HostBecomes(
            IF EndSessionResult(State) = Null
              THEN Host
              ELSE LET observed == Observes(Host, next, "endSession")
                       saved    == dbSaveSession(
                                     observed, next.heap[EndSessionResult(State)])
                   IN  [saved EXCEPT !.awaiting =
                          @ \cup {Awaiting(EndSessionResult(State), "command",
                                           "endSession")}])
       /\ last' = Did("endSession", currentSession, EndSessionResult(State),
                      Null)
  /\ UNCHANGED <<nextEvent, oplog, zone, fileVars, syncVars,
                 claudeReady, diskFull>>

\* The inactivity timeout fires.
TimeoutEndsSession ==
  /\ Activated
  /\ \E t \in pendingTimers :
       \E next \in {TimeoutCallback([State EXCEPT !.pendingTimers = @ \ {t}])} :
         /\ ManagerBecomes(next)
         /\ HostBecomes(Observes(Host, next, "timeout"))
         /\ last' = Did("timeout", currentSession,
                        IF CurrentIsActive(State) THEN currentSession ELSE Null,
                        t.id)
  /\ UNCHANGED <<nextEvent, oplog, zone, fileVars, syncVars,
                 claudeReady, diskFull>>

\* The host disposes of the extension's subscriptions: the manager's
\* dispose(), the syncer's dispose() and the store's close().
SubscriptionsDisposed ==
  /\ Activated /\ ~disposed
  /\ Len(runs) < MaxRuns
  /\ \E next \in {dispose(State)} :
       /\ ManagerBecomes(next)
       /\ HostBecomes(dbSave(Observes(Host, next, "dispose")))
       /\ last' = Did("dispose", currentSession,
                      IF CurrentIsActive(State) THEN currentSession ELSE Null,
                      Null)
  /\ SyncerBecomes(syncerDispose(Syncer).engine)
  /\ syncLast' = SyncDid("dispose", Len(runs) + 1, "none", <<>>)
  /\ disposed' = TRUE
  /\ UNCHANGED <<nextEvent, oplog, zone, fileVars, gitRepo,
                 claudeReady, diskFull>>

\* An async function of the extension goes on after its await: the summary
\* is there (the client's, or the fallback: summarizeSession does not
\* reject), updateSummary is called, nothing is extracted from a session
\* without terminal events, the session is saved again; then, outside the
\* try, it is exported.
Resumes ==
  \E c \in awaiting :
    \E next \in {updateSummary(State, heap[c.session].id, 1)} :
      /\ ManagerBecomes(next)
      /\ HostBecomes(
           ExportsLast(
             dbSaveSession([Host EXCEPT !.awaiting = @ \ {c}],
                           next.heap[c.session]),
             next.heap[c.session], c.in, c.by))
      /\ last' = Did("resumes", currentSession, Null, c.session)
      /\ UNCHANGED <<nextEvent, oplog, zone, fileVars, syncVars,
                     claudeReady, diskFull>>

\* ClaudeClient.initialize() finds the API key.
ClaudeInitializes ==
  /\ Activated
  /\ ~claudeReady
  /\ claudeReady' = TRUE
  /\ last' = Did("client initialized", currentSession, Null, Null)
  /\ UNCHANGED <<buffer, maxSize, flushCallback, currentSession, heap,
                 sessions, lastActivityTime, sessionTimeoutTimer,
                 onSessionEndCallbacks, pendingTimers, timersCreated,
                 scheduledFor, now, nextEvent, idsGenerated, delivered,
                 notified, added, oplog, storeVars, syncVars, diskFull,
                 exported, awaiting, unhandled>>

\* The disk fills up, or has room again.
DiskChanges ==
  /\ Activated
  /\ diskFull' = ~diskFull
  /\ last' = Did("disk", currentSession, Null, Null)
  /\ UNCHANGED <<buffer, maxSize, flushCallback, currentSession, heap,
                 sessions, lastActivityTime, sessionTimeoutTimer,
                 onSessionEndCallbacks, pendingTimers, timersCreated,
                 scheduledFor, now, nextEvent, idsGenerated, delivered,
                 notified, added, oplog, storeVars, syncVars, claudeReady,
                 exported, awaiting, unhandled>>

\* The extension from its activation on: sessions are started and ended by
\* the commands, the inactivity timeout and the disposal, each end runs the
\* observer, and what the observer and the end command await comes in.
NextHost ==
  \/ Activate
  \/ StartSessionCommand
  \/ EndSessionCommand
  \/ TimeoutEndsSession
  \/ SubscriptionsDisposed
  \/ Resumes
  \/ ClaudeInitializes
  \/ DiskChanges

\* After new SessionManager(), new LocalDb(storagePath) on a path with no
\* file, new MarkdownExporter(), new GitSyncer() and new ClaudeClient().
InitHost ==
  /\ InitStore
  /\ zone = DayTicks

SpecHost == InitHost /\ [][NextHost]_vars

\* ------------------------------------------------------------- claims

\* The events passed to addEvent while session r was current, in call order.
EventsAddedTo(r) ==
  LET mine == SelectSeq(added, LAMBDA a : a.session = r)
  IN  [i \in 1..Len(mine) |-> mine[i].event]

\* The batches of a log, one after the other.
RECURSIVE Flatten(_)
Flatten(batches) ==
  IF batches = <<>> THEN <<>> ELSE Head(batches) \o Flatten(Tail(batches))

\* The sessions the manager holds: the current one and the history.
Held ==
  Range(sessions) \cup (IF currentSession = Null THEN {} ELSE {currentSession})

C2_StartEndsPrior ==
  (last.op = "startSession" /\ last.prior # Null) =>
    /\ ~heap[last.prior].isActive
    /\ heap[last.prior].endTime # NoTime
    /\ last.prior \in Range(sessions)
    /\ currentSession # Null
    /\ currentSession # last.prior
    /\ currentSession \notin Range(sessions)
    /\ last.ret = currentSession
    /\ heap[currentSession].isActive
    /\ heap[currentSession].events = <<>>
    /\ heap[currentSession].tasks = <<>>
    /\ heap[currentSession].issues = <<>>
    /\ heap[currentSession].endTime = NoTime
    /\ heap[currentSession].startTime = now
    /\ heap[last.prior].endTime <= heap[currentSession].startTime
    /\ \A k \in 1..Len(notified) :
         notified[k].session = last.prior =>
           notified[k].inHistory /\ notified[k].created < currentSession

\* C2's case: startSession has just replaced a session that held events,
\* with an observer registered.
C2_Witness ==
  /\ last.op = "startSession"
  /\ last.prior # Null
  /\ heap[last.prior].events # <<>>
  /\ notified # <<>>

\* C3: of any two sessions, the one that started earlier (was created
\* earlier, when both start at the same instant) has an end time, and it is
\* at most the start time of the later one.
C3_NoOverlap ==
  \A a \in 1..Len(heap) : \A b \in 1..Len(heap) :
    (heap[a].startTime < heap[b].startTime
       \/ (heap[a].startTime = heap[b].startTime /\ a < b)) =>
      /\ heap[a].endTime # NoTime
      /\ heap[a].endTime <= heap[b].startTime

\* C3's case: a session that lasted some time and a session started later
\* than its end.
C3_Witness ==
  /\ Len(heap) >= 2
  /\ heap[1].startTime < heap[1].endTime
  /\ heap[1].endTime < heap[2].startTime

\* C4: each session's events, followed by the buffer if the session is
\* current, are exactly the events passed to addEvent while it was current,
\* once each and in call order; the buffer is empty when there is no
\* session.  So after the next flush every added event is in its session.
C4_EventsAttributed ==
  /\ \A r \in 1..Len(heap) :
       heap[r].events \o (IF r = currentSession THEN buffer ELSE <<>>)
         = EventsAddedTo(r)
  /\ currentSession = Null => buffer = <<>>

\* C4's case: an ended session whose events arrived in two batches, one at
\* the cap and one at the end.
C4_Witness ==
  \E r \in Range(sessions) :
    /\ Len(heap[r].events) = 3
    /\ maxSize = 2
    /\ Len(delivered) = 2

\* C5: after addEvent called with no session, a session started by that
\* call is current and active, the event is held in the buffer or already in
\* that session, the last-activity time is the time of the call and the
\* inactivity timer is pending.
C5_AddEventAutoStarts ==
  (last.op = "addEvent" /\ last.prior = Null) =>
    /\ currentSession # Null
    /\ currentSession = Len(heap)
    /\ currentSession \notin Range(sessions)
    /\ heap[currentSession].isActive
    /\ heap[currentSession].startTime = now
    /\ added[Len(added)] = [event |-> last.arg, session |-> currentSession]
    /\ \/ buffer = <<last.arg>> /\ heap[currentSession].events = <<>>
       \/ buffer = <<>> /\ heap[currentSession].events = <<last.arg>>
    /\ lastActivityTime = now
    /\ sessionTimeoutTimer # Null
    /\ pendingTimers = {[id |-> sessionTimeoutTimer, due |-> now + TimeoutTicks]}

\* C5's case: addEvent with no session, after an earlier session has ended
\* and time has passed.
C5_Witness ==
  /\ last.op = "addEvent"
  /\ last.prior = Null
  /\ sessions # <<>>
  /\ now > 0
  /\ buffer # <<>>

\* The calls i .. i+n-1 of the buffer are pushes, the first on an empty buffer.
PushRun(i, n) ==
  /\ i + n - 1 <= Len(oplog)
  /\ oplog[i].pre = <<>>
  /\ \A k \in 0..(n - 1) : oplog[i + k].op = "push"

\* C6: maxSize pushes starting on an empty buffer call the flush callback
\* exactly once, on the last of them, with exactly the pushed events in push
\* order, and leave the buffer empty.
C6_FlushAtCap ==
  \A i \in 1..Len(oplog) :
    PushRun(i, maxSize) =>
      /\ \A k \in 0..(maxSize - 2) : oplog[i + k].calls = <<>>
      /\ oplog[i + maxSize - 1].calls =
           << [k \in 1..maxSize |-> oplog[i + k - 1].event] >>
      /\ oplog[i + maxSize - 1].post = <<>>

\* C6's case: a cap of 2 or more reached by pushes, after an earlier flush.
C6_Witness ==
  \E i \in 2..Len(oplog) : maxSize >= 2 /\ PushRun(i, maxSize)

\* C7: flush on an empty buffer calls no callback, returns the empty batch
\* and leaves the buffer empty; every flush leaves the buffer empty, so a
\* flush right after a flush delivers nothing.
C7_EmptyFlushNoOp ==
  \A i \in 1..Len(oplog) :
    oplog[i].op = "flush" =>
      /\ oplog[i].post = <<>>
      /\ oplog[i].pre = <<>> =>
           oplog[i].calls = <<>> /\ oplog[i].ret = <<>>
      /\ (i > 1 /\ oplog[i - 1].op = "flush") =>
           oplog[i].calls = <<>> /\ oplog[i].ret = <<>>

\* C7's case: a flush that delivered a batch, followed at once by a flush.
C7_Witness ==
  \E i \in 2..Len(oplog) :
    /\ oplog[i].op = "flush"
    /\ oplog[i - 1].op = "flush"
    /\ oplog[i - 1].calls # <<>>

\* The events pushed so far, in push order.
Pushed ==
  LET pushes == SelectSeq(oplog, LAMBDA c : c.op = "push")
  IN  [i \in 1..Len(pushes) |-> pushes[i].event]

\* C8: the batches delivered to the flush callback, one after the other,
\* followed by the buffer, are the pushed events in push order.
C8_NothingLostOrReordered ==
  Flatten(delivered) \o buffer = Pushed

\* C8's case: two batches delivered, one by the cap and one by a flush of a
\* partly filled buffer, and an event still buffered.
C8_Witness ==
  /\ Len(delivered) >= 2
  /\ \E k \in 1..Len(delivered) : Len(delivered[k]) < maxSize
  /\ \E k \in 1..Len(delivered) : Len(delivered[k]) = maxSize
  /\ buffer # <<>>

\* An operation has just ended a session: endSession itself, or the
\* inactivity timer or dispose calling it.
JustEnded ==
  /\ last.op \in {"endSession", "timeout", "dispose"}
  /\ last.ret # Null

\* C9: when endSession has ended a session, that session holds every event
\* added during it, is inactive with its end time set, is the last element of
\* the history, no session is current and the buffer is empty.
C9_EndFinalizes ==
  JustEnded =>
    /\ last.ret = last.prior
    /\ heap[last.ret].events = EventsAddedTo(last.ret)
    /\ ~heap[last.ret].isActive
    /\ heap[last.ret].endTime = now
    /\ sessions # <<>>
    /\ sessions[Len(sessions)] = last.ret
    /\ currentSession = Null
    /\ buffer = <<>>

\* C9's case: the second session is ended by endSession with an event still
\* in the buffer (a cap of 2 and three events in the session).
C9_Witness ==
  /\ last.op = "endSession"
  /\ last.ret # Null
  /\ Len(sessions) = 2
  /\ maxSize = 2
  /\ Len(heap[last.ret].events) = 3

\* C10: the observers' calls are, for each ended session in the order of
\* the history, one call of each registered observer in registration order;
\* at each call the session is inactive, has its end time and all its events,
\* is in the history, and the buffer is empty.
C10_ObserversNotified ==
  LET n == Len(onSessionEndCallbacks) IN
  /\ Len(notified) = Len(sessions) * n
  /\ \A k \in 1..Len(notified) :
       /\ notified[k].session = sessions[((k - 1) \div n) + 1]
       /\ notified[k].cb = onSessionEndCallbacks[((k - 1) % n) + 1]
       /\ ~notified[k].seen.isActive
       /\ notified[k].seen.endTime # NoTime
       /\ notified[k].seen.events = EventsAddedTo(notified[k].session)
       /\ notified[k].pending = <<>>
       /\ notified[k].inHistory

\* C10's case: two observers, and two sessions ended, one of them with
\* events flushed by its end.
C10_Witness ==
  /\ Len(onSessionEndCallbacks) = 2
  /\ Len(sessions) = 2
  /\ Len(notified) = 4
  /\ \E k \in 1..4 : notified[k].seen.events # <<>>

\* ------------------------------------------------ the inactivity timer

\* The session r is the current one and is active.
Running(r) == currentSession = r /\ heap[r].isActive

\* The instant the current inactivity period runs out.
IdleDeadline == lastActivityTime + TimeoutTicks

\* The inactivity timeout has just ended a session.
TimedOut == last.op = "timeout" /\ last.ret # Null

\* What a timeout that ends a session leaves behind.
TimedOutAsManualEnd ==
  TimedOut =>
    LET n == Len(onSessionEndCallbacks)
        m == Len(notified)
    IN  /\ last.ret = last.prior
        /\ ~heap[last.ret].isActive
        /\ heap[last.ret].endTime = IdleDeadline
        /\ heap[last.ret].endTime = now
        /\ sessions # <<>> /\ sessions[Len(sessions)] = last.ret
        /\ currentSession = Null
        /\ m >= n
        /\ \A i \in 1..n :
             /\ notified[m - n + i].cb = onSessionEndCallbacks[i]
             /\ notified[m - n + i].session = last.ret
             /\ notified[m - n + i].seen = heap[last.ret]
             /\ notified[m - n + i].inHistory
             /\ notified[m - n + i].pending = <<>>

\* C11: an active session whose inactivity period runs out within the clock's
\* range is eventually ended without any call (unless further activity moves
\* the deadline past the range); and a session the timeout ends has
\* endTime = last activity + timeout, is in the history, and every observer
\* was called with it as for a manual end.
C11_IdleSessionTimesOut ==
  /\ [](TimedOutAsManualEnd)
  /\ \A r \in 1..MaxSessions :
       (r <= Len(heap) /\ Running(r) /\ IdleDeadline <= MaxTime)
         ~> (~Running(r) \/ IdleDeadline > MaxTime)

\* C11's case: a session that received an event after its start was ended
\* by the timeout, one full period after that event, with two observers
\* registered.
C11_Witness ==
  /\ TimedOut
  /\ heap[last.ret].events # <<>>
  /\ heap[last.ret].endTime > heap[last.ret].startTime + TimeoutTicks
  /\ Len(onSessionEndCallbacks) = 2

\* C12: at most one inactivity timeout is pending, and it is the one
\* scheduled last; the timeout that fires is the one scheduled last (a
\* cancelled one never fires); and a timeout ends a session no sooner than
\* the full period after the most recent startSession or addEvent.
C12_ResetCancelsPrevious ==
  /\ Cardinality(pendingTimers) <= 1
  /\ \A t \in pendingTimers :
       /\ t.id = sessionTimeoutTimer
       /\ t.id = timersCreated
       /\ t.due = IdleDeadline
  /\ last.op = "timeout" =>
       /\ last.arg = timersCreated
       /\ now >= IdleDeadline

\* C12's case: the timeout was reset by an addEvent one tick after the
\* start, and the timeout that then fired was the third one scheduled.
C12_Witness ==
  /\ TimedOut
  /\ last.arg >= 3
  /\ lastActivityTime > heap[last.ret].startTime

\* C13: with no current session no timeout is pending; a pending timeout
\* was scheduled for the current session, and a timeout that fires acts on
\* the session it was scheduled for and on no other.
C13_EndCancelsTimer ==
  /\ currentSession = Null => pendingTimers = {}
  /\ \A t \in pendingTimers : scheduledFor[t.id] = currentSession
  /\ last.op = "timeout" =>
       /\ last.prior # Null
       /\ scheduledFor[last.arg] = last.prior
       /\ last.ret = last.prior

\* C13's case: the first session was ended by a call while its timeout was
\* pending, and the second session was later ended by its own timeout.
C13_Witness ==
  /\ TimedOut
  /\ last.ret = 2
  /\ heap[1].endTime < heap[1].startTime + TimeoutTicks

\* ------------------------------------------------- tasks and issues

\* The references of the sessions whose task or issue list holds the
\* record with this id.
HoldersOf(id) ==
  {r \in 1..Len(heap) :
     \/ \E i \in 1..Len(heap[r].tasks) : heap[r].tasks[i].id = id
     \/ \E i \in 1..Len(heap[r].issues) : heap[r].issues[i].id = id}

\* The last element of a list.
Last(list) == list[Len(list)]

\* C14: addTask and addIssue called with no current session return null and
\* change nothing: no session is started, the history and every session's
\* tasks and issues, the buffer and the timer are as they were.
C14_AddWithoutSessionIsNoOp ==
  [][(last'.op \in {"addTask", "addIssue"} /\ currentSession = Null)
       => (last'.ret = Null /\ State' = State)]_vars

\* C14's case: addIssue was called after a session with an event had ended,
\* with a task already in it.
C14_Witness ==
  /\ last.op = "addIssue"
  /\ last.prior = Null
  /\ sessions # <<>>
  /\ heap[sessions[1]].events # <<>>
  /\ heap[sessions[1]].tasks # <<>>

\* C15: every task and issue in a session's lists carries that session's id
\* and is in no other session's lists; addTask and addIssue with a current
\* session append the new record to it with its id, and an extracted record
\* goes to the session it was extracted from, with that session's id.
C15_RecordsBelongToTheirSession ==
  /\ \A r \in 1..Len(heap) :
       /\ \A i \in 1..Len(heap[r].tasks) :
            /\ heap[r].tasks[i].sessionId = heap[r].id
            /\ HoldersOf(heap[r].tasks[i].id) = {r}
       /\ \A i \in 1..Len(heap[r].issues) :
            /\ heap[r].issues[i].sessionId = heap[r].id
            /\ HoldersOf(heap[r].issues[i].id) = {r}
  /\ (last.op = "addTask" /\ last.prior # Null) =>
       /\ currentSession = last.prior
       /\ Last(heap[currentSession].tasks).id = last.ret
       /\ Last(heap[currentSession].tasks).sessionId = heap[currentSession].id
  /\ (last.op = "addIssue" /\ last.prior # Null) =>
       /\ currentSession = last.prior
       /\ Last(heap[currentSession].issues).id = last.ret
       /\ Last(heap[currentSession].issues).sessionId = heap[currentSession].id
  /\ last.op = "extractTask" =>
       /\ Last(heap[last.arg].tasks).id = last.ret
       /\ Last(heap[last.arg].tasks).sessionId = heap[last.arg].id
  /\ last.op = "extractIssue" =>
       /\ Last(heap[last.arg].issues).id = last.ret
       /\ Last(heap[last.arg].issues).sessionId = heap[last.arg].id

\* C15's case: a task was added by hand to the first session, and an issue
\* extracted from the first session is attached to it while the second
\* session is the current one.
C15_Witness ==
  /\ last.op = "extractIssue"
  /\ last.arg = 1
  /\ currentSession = 2
  /\ heap[1].tasks # <<>>
  /\ heap[1].issues # <<>>

\* C16: endSession called with no current session returns null, calls no
\* observer, and leaves the history, the buffer and the timer as they were.
C16_EndWithoutSessionIsNoOp ==
  [][(last'.op = "endSession" /\ currentSession = Null)
       => (last'.ret = Null /\ State' = State)]_vars

\* C16's case: endSession was called with two observers registered, after a
\* session had ended, so that there is a history and a stale timer handle.
C16_Witness ==
  /\ last.op = "endSession"
  /\ last.prior = Null
  /\ Len(onSessionEndCallbacks) = 2
  /\ sessions # <<>>
  /\ sessionTimeoutTimer # Null

\* The heap with the summary of every session whose id is sessionId set.
WithSummary(h, sessionId, summary) ==
  [r \in 1..Len(h) |->
     IF h[r].id = sessionId THEN [h[r] EXCEPT !.summary = summary] ELSE h[r]]

\* C17: updateSummary(id, summary) sets the summary of the session with that
\* id, be it in the history or the current one, and changes nothing else; with
\* an id no session has it changes nothing.
C17_UpdateSummaryFrame ==
  [][last'.op = "updateSummary"
       => /\ heap' = WithSummary(heap, last'.arg, last'.ret)
          /\ (\A r \in 1..Len(heap) : heap[r].id # last'.arg) => heap' = heap
          /\ [State EXCEPT !.heap = heap'] = State']_vars

\* C17's case: the summary of the current session was replaced by another,
\* with an ended session in the history keeping its own.
C17_Witness ==
  /\ last.op = "updateSummary"
  /\ currentSession # Null
  /\ last.arg = heap[currentSession].id
  /\ heap[currentSession].summary = 2
  /\ sessions # <<>>
  /\ heap[sessions[1]].summary = 1

\* ---------------------------------------------------------- the store

\* The positions of the stored sessions with this id.
StoredAt(stored, id) == {i \in 1..Len(stored) : stored[i].id = id}

\* No two stored sessions share an id.
UniqueIds == \A i, j \in 1..Len(data) : data[i].id = data[j].id => i = j

\* What saveSession(session) does to the sessions in memory and to the file.
SavedAsUpsert(session) ==
  /\ StoredAt(data, session.id) # {} =>
       /\ Len(data') = Len(data)
       /\ \A i \in 1..Len(data) :
            data'[i] = IF i \in StoredAt(data, session.id) THEN session ELSE data[i]
  /\ StoredAt(data, session.id) = {} =>
       /\ Len(data') = Len(data) + 1
       /\ data'[Len(data')] = session
       /\ \A i \in 1..Len(data) : data'[i] = data[i]
  /\ dbFile'.kind = "document"
  /\ Len(dbFile'.sessions) = Len(data')
  /\ \A i \in 1..Len(data') : dbFile'.sessions[i] = Stringify(data'[i])

C19_RoundTrip ==
  storeLast.op = "new" => data = storeLast.arg

\* The sessions in the day that begins at lo and ends before hi, as
\* positions in the store.
StartsWithin(lo, hi) ==
  {i \in 1..Len(data) : lo <= data[i].startTime.ms /\ data[i].startTime.ms < hi}

\* result holds exactly the stored sessions that start in [lo, hi), in
\* ascending order of startTime.
ExactlyAscending(result, lo, hi) ==
  /\ Len(result) = Cardinality(StartsWithin(lo, hi))
  /\ Range(result) = {data[i] : i \in StartsWithin(lo, hi)}
  /\ \A i, j \in 1..Len(result) :
       i < j => result[i].startTime.ms <= result[j].startTime.ms

Occurrences(list, session) ==
  Cardinality({i \in 1..Len(list) : list[i] = session})

\* The list has the latest start first.
LatestFirst(list) ==
  \A i, j \in 1..Len(list) :
    i < j => list[i].startTime.ms >= list[j].startTime.ms

\* C21: getAllSessions() returns every stored session exactly once, the
\* latest start first, and leaves the stored list, its order and the file
\* as they were.
C21_GetAllSessions ==
  [][storeLast'.op = "getAllSessions" =>
       /\ Len(storeLast'.ret) = Len(data)
       /\ \A i \in 1..Len(data) :
            Occurrences(storeLast'.ret, data[i]) = Occurrences(data, data[i])
       /\ LatestFirst(storeLast'.ret)
       /\ data' = data
       /\ dbFile' = dbFile]_vars

\* getAllSessions() has returned two sessions in the reverse of the order
\* in which they are stored, and the stored order is still the other one.
C21_Witness ==
  /\ storeLast.op = "getAllSessions"
  /\ Len(data) = 2
  /\ data[1].startTime.ms < data[2].startTime.ms
  /\ storeLast.ret = <<data[2], data[1]>>

\* The store's list holds a session with this id.
Stored(stored, id) == \E i \in 1..Len(stored) : stored[i].id = id

BadFiles == {"corrupt", "unreadable", "partial"}

\* C23: a LocalDb constructed over a file that cannot be read or parsed is
\* constructed without raising and holds no session: getAllSessions()
\* returns the empty list.
C23_CorruptFileGivesEmptyStore ==
  /\ storeLast.op # "new raised"
  /\ (storeLast.op = "new" /\ dbFile.kind \in BadFiles) =>
       /\ data = <<>>
       /\ getAllSessions(data) = <<>>

\* A store that held a session was replaced by a new one constructed over
\* the file after it was damaged.
C23_Witness ==
  /\ storeLast.op = "new"
  /\ dbFile.kind \in {"corrupt", "unreadable"}
  /\ storeLast.arg # <<>>
  /\ data = <<>>

\* After a saveSession or deleteSession whose write completed, the file is
\* the document of the list in memory.
WrittenIsSnapshot ==
  storeLast.op \in {"saveSession", "deleteSession"} => dbFile = save(data)

\* C24 as stated: after a saveSession or deleteSession whose write
\* succeeded the file is the complete document of the list in memory, and
\* what a reader of the file reads is never a partly written document.
C24_AtomicSnapshot ==
  /\ WrittenIsSnapshot
  /\ readerSaw.kind # "partial"

\* The git operations of sync(), in the order of the source.
SyncOrder == <<"status", "add", "commit", "pull", "push", "push -u">>

\* The pushes of a run: those that ended and the one it awaits.
Pushes(run) ==
  Cardinality({i \in 1..Len(run.calls) :
                 run.calls[i].cmd \in {"push", "push -u"}})
    + (IF run.pc \in {"push", "push -u"} THEN 1 ELSE 0)

\* The run made this call and it ended this way.
Made(run, i, cmd, outcome) ==
  /\ Len(run.calls) >= i
  /\ run.calls[i] = GitCall(cmd, outcome)

\* C25: a call of sync() whose status reports no changed file returns true
\* and makes no other git operation: no add, commit, pull or push.
C25_NothingToSync ==
  \A r \in 1..Len(runs) :
    Made(runs[r], 1, "status", "clean") =>
      /\ runs[r].calls = <<GitCall("status", "clean")>>
      /\ runs[r].pc = "done"
      /\ runs[r].result = "true"

\* A call of sync() found nothing changed and has returned true.
C25_Witness ==
  \E r \in 1..Len(runs) :
    /\ runs[r].calls = <<GitCall("status", "clean")>>
    /\ runs[r].result = "true"

\* C26: the git operations of a call of sync() are made in the order
\* status, add, commit, pull, push (then the retried push), each after the
\* one before it ended; after a pull that failed the push is made all the
\* same, and what sync() returns depends on the pushes alone.
C26_SyncOrder ==
  \A r \in 1..Len(runs) :
    /\ Len(runs[r].calls) <= Len(SyncOrder)
    /\ \A i \in 1..Len(runs[r].calls) : runs[r].calls[i].cmd = SyncOrder[i]
    /\ runs[r].pc # "done" => runs[r].pc = SyncOrder[Len(runs[r].calls) + 1]
    /\ Made(runs[r], 1, "status", "dirty") =>
         \/ Len(runs[r].calls) = 1 /\ runs[r].pc = "add"
         \/ Len(runs[r].calls) > 1
    /\ Made(runs[r], 4, "pull", "fail") =>
         \/ runs[r].pc = "push"
         \/ Len(runs[r].calls) >= 5
    /\ Made(runs[r], 5, "push", "ok") => runs[r].result = "true"

\* A call of sync() whose pull failed has pushed and returned true.
C26_Witness ==
  \E r \in 1..Len(runs) :
    /\ Made(runs[r], 1, "status", "dirty")
    /\ Made(runs[r], 4, "pull", "fail")
    /\ Made(runs[r], 5, "push", "ok")
    /\ runs[r].result = "true"

\* C27: a push that failed is retried once, with -u: sync() returns true if
\* the retry succeeds and false if it fails too, and a call of sync()
\* makes at most two pushes.
C27_PushRetriedOnce ==
  \A r \in 1..Len(runs) :
    /\ Pushes(runs[r]) <= 2
    /\ Made(runs[r], 5, "push", "ok") =>
         Len(runs[r].calls) = 5 /\ runs[r].pc = "done"
    /\ Made(runs[r], 5, "push", "fail") =>
         \/ Len(runs[r].calls) = 5 /\ runs[r].pc = "push -u"
         \/ /\ Len(runs[r].calls) = 6
            /\ runs[r].calls[6].cmd = "push -u"
            /\ runs[r].pc = "done"
            /\ runs[r].result =
                 (IF runs[r].calls[6].outcome = "ok" THEN "true" ELSE "false")

\* Both pushes of a call of sync() failed and it has returned false.
C27_Witness ==
  \E r \in 1..Len(runs) :
    /\ Made(runs[r], 5, "push", "fail")
    /\ Made(runs[r], 6, "push -u", "fail")
    /\ runs[r].result = "false"

\* C28: no call of sync() raises: it is pending or has returned true or
\* false, whichever git operations failed; and when status, add or commit
\* fails it returns false and has made no push.
C28_SyncNeverRaises ==
  \A r \in 1..Len(runs) :
    /\ runs[r].result \in {"pending", "true", "false"}
    /\ runs[r].pc = "done" <=> runs[r].result \in {"true", "false"}
    /\ \A i \in 1..Len(runs[r].calls) :
         (/\ runs[r].calls[i].cmd \in {"status", "add", "commit"}
          /\ runs[r].calls[i].outcome = "fail") =>
           /\ i = Len(runs[r].calls)
           /\ runs[r].pc = "done"
           /\ runs[r].result = "false"
           /\ Pushes(runs[r]) = 0

\* A call of sync() whose commit failed has returned false.
C28_Witness ==
  \E r \in 1..Len(runs) :
    /\ Made(runs[r], 3, "commit", "fail")
    /\ runs[r].result = "false"

\* C29 as stated: when forceSync() returns, the call of sync() it made is
\* over, and forceSync() returns what that call returned.
C29_ForceSyncAsSync ==
  syncLast.op = "forceSync" =>
    /\ runs[syncLast.run].pc = "done"
    /\ syncLast.ret = runs[syncLast.run].result

\* Some git operation of the initialize() that acted last failed.
InitializeFailedInGit ==
  \E i \in 1..Len(syncLast.calls) : syncLast.calls[i].outcome = "fail"

\* C30: initialize() with no remote configured returns false, makes no git
\* operation and changes nothing of the syncer (not ready, no interval);
\* initialize() in which a git operation fails returns false too and leaves
\* the syncer not ready, with no interval.
C30_InitializeFails ==
  [][syncLast'.op = "initialize" =>
       /\ ~gitRepo =>
            /\ syncLast'.ret = "false"
            /\ syncLast'.calls = <<>>
            /\ UNCHANGED <<git, isInitialized, syncInterval, intervalActive,
                           runs>>
            /\ ~isInitialized' /\ ~intervalActive'
       /\ InitializeFailedInGit' =>
            /\ syncLast'.ret = "false"
            /\ ~isInitialized' /\ ~intervalActive' /\ ~syncInterval']_vars

\* initialize() failed in addRemote: the syncer holds its git handle, is not
\* ready and has no interval.
C30_Witness ==
  /\ syncLast.op = "initialize"
  /\ syncLast.ret = "false"
  /\ Len(syncLast.calls) = 3
  /\ syncLast.calls[3] = GitCall("addRemote", "fail")
  /\ git /\ ~isInitialized /\ ~intervalActive

\* C31: while initialize() has not succeeded every call of sync() has
\* returned false without a git operation, and the command syncToGithub
\* has made a forceSync() only if the syncer is ready.
C31_NotReadyNoSync ==
  /\ ~isInitialized =>
       \A r \in 1..Len(runs) :
         /\ runs[r].pc = "done"
         /\ runs[r].result = "false"
         /\ runs[r].calls = <<>>
  /\ syncLast.op = "syncToGithub" => (syncLast.run # Null <=> isInitialized)

\* The command was run after an initialize() that failed in git and after a
\* sync() that returned false: its own initialize() failed too and it made no
\* forceSync().
C31_Witness ==
  /\ syncLast.op = "syncToGithub"
  /\ syncLast.run = Null
  /\ syncLast.calls # <<>>
  /\ ~isInitialized
  /\ git
  /\ Len(runs) = 1
  /\ runs[1].result = "false"

IsFallbackOf(summary, session) ==
  /\ summary.summary.kind = "computed"
  /\ summary.summary.events = Len(session.events)
  /\ summary.tasksCompleted = <<>>
  /\ summary.issuesResolved = <<>>
  /\ summary.keyConversations = <<>>
  /\ Len(summary.filesModified) <= FallbackFiles
  /\ \A i, j \in 1..Len(summary.filesModified) :
       summary.filesModified[i] = summary.filesModified[j] => i = j
  /\ \A i \in 1..Len(summary.filesModified) :
       \E k \in 1..Len(session.events) :
         /\ session.events[k].type = "file"
         /\ session.events[k].filePath = summary.filesModified[i]
  /\ \/ Len(summary.filesModified) = FallbackFiles
     \/ \A k \in 1..Len(session.events) :
          session.events[k].type = "file" =>
            session.events[k].filePath \in Range(summary.filesModified)

\* C33 as stated: when the call of the client fails, or its text holds no
\* valid JSON object, summarizeSession resolves to the minimal summary
\* computed from the session.
C33_FallbackSummary ==
  (/\ last.op = "summarizeSession"
   /\ last.arg.response.object \in {"call fails", "none", "invalid"}) =>
     IsFallbackOf(last.ret, last.arg.session)

\* What does hold: the computed summary when the call fails.
FallbackWhenCallFails ==
  (/\ last.op = "summarizeSession"
   /\ last.arg.response.object = "call fails") =>
     IsFallbackOf(last.ret, last.arg.session)

\* C39 as stated: the git operations of two calls of sync() are never
\* interleaved: no two calls have each completed a git operation while each
\* still awaits its next one.
C39_OneSyncAtATime ==
  \A i, j \in 1..Len(runs) :
    (/\ runs[i].pc # "done" /\ runs[i].calls # <<>>
     /\ runs[j].pc # "done" /\ runs[j].calls # <<>>) => i = j

\* The operations of the store that raised.
RaisedInStore ==
  {"saveSession raised", "deleteSession raised", "getSessionsByDate raised",
   "getAllSessions raised"}

\* C40 as stated: whatever the file held when the store was constructed,
\* the store has a session list and saveSession, getAllSessions,
\* getSessionsByDate and deleteSession complete without raising.
C40_OpenedStoreWorks ==
  /\ hasSessions
  /\ storeLast.op \notin RaisedInStore

\* What does hold: over a file that is absent, unreadable or unparseable,
\* or that holds a document with a sessions list, the store has a list and
\* no operation raises.
OpenedStoreWorksWithList ==
  dbFile.kind # "no sessions" =>
    /\ hasSessions
    /\ storeLast.op \notin RaisedInStore

\* C37 as stated: whenever there is no current session the buffer is empty,
\* whatever the end-of-session observers do, so that no batch is flushed
\* while there is no session to take it.
C37_IdleBufferEmpty ==
  currentSession = Null => buffer = <<>>

\* What does hold: the buffer is empty whenever there is no current session,
\* as long as no observer has called addEvent.
IdleBufferEmptyUnlessReentered ==
  (\A i \in 1..Len(onSessionEndCallbacks) :
     onSessionEndCallbacks[i].does # "adds event") =>
    (currentSession = Null => buffer = <<>>)

\* C38 as stated: no session is in the history twice, and every session in
\* the history is inactive and has an end time, whatever the end-of-session
\* observers do.
C38_HistoryHoldsEachEndedSessionOnce ==
  /\ \A i, j \in 1..Len(sessions) : sessions[i] = sessions[j] => i = j
  /\ \A i \in 1..Len(sessions) :
       /\ ~heap[sessions[i]].isActive
       /\ heap[sessions[i]].endTime # NoTime

\* What does hold: the same, as long as no observer raises.
HistoryOnceUnlessRaised ==
  (\A i \in 1..Len(onSessionEndCallbacks) :
     onSessionEndCallbacks[i].does # "raises") =>
    /\ \A i, j \in 1..Len(sessions) : sessions[i] = sessions[j] => i = j
    /\ \A i \in 1..Len(sessions) :
         /\ ~heap[sessions[i]].isActive
         /\ heap[sessions[i]].endTime # NoTime

\* C34 as stated: nothing that the inactivity timeout sets off when it ends
\* a session fails without being handled: no promise is rejected and no
\* exception raised that nothing catches.
C34_TimeoutFailuresHandled ==
  \A failure \in unhandled : failure.by # "timeout"

\* The ids of the sessions the store holds.
StoredIds == {data[i].id : i \in 1..Len(data)}

TimesExported(r) ==
  Cardinality({i \in 1..Len(exported) : exported[i].session = heap[r].id})

\* C36 as stated: whatever ends a session, the session is appended to the
\* export document of its day once, not more.
C36_ExportedOncePerEnd ==
  \A r \in 1..Len(heap) : TimesExported(r) <= 1

====
